---- MODULE Spec2Model ----
(***************************************************************************)
(* Model of the in-memory resilience and caching core of creative-service: *)
(*   app/resilience/circuit_breaker.py   CircuitBreaker                    *)
(*   app/caching/cache_manager.py        CacheEntry, CacheManager          *)
(* Time is the wall clock time.time(), modelled as an integer number of    *)
(* seconds that only the Tick actions advance.                             *)
(***************************************************************************)
EXTENDS Integers, Sequences, FiniteSets, TLC

\* ---------------------------------------------------------------- bounds
\* Largest clock value explored.
MaxTime == 6
\* The clock value at construction; time.time() is positive.
StartTime == 1

\* Python's None for an Optional[float].
None == -1

\* Python truthiness of an Optional[float]: None and 0.0 are falsy.
Truthy(t) == t # None /\ t # 0

VARIABLES
    now,               \* time.time()
    breaker,           \* the CircuitBreaker dataclass instance of one provider
    cb_call,           \* history: name of the last method called on the breaker
    cb_ret,            \* history: value returned by the last can_attempt()
    consec_failures,   \* history: record_failure calls since the last record_success
    admitted,          \* history: can_attempt() = True answers of the current HalfOpen period
    cb_from,           \* history: the breaker's state before the last call on it
    reopened,          \* history: the last record_* call was a record_failure in HalfOpen
    policy,            \* CacheManager.policy, read once in __init__
    cache,             \* CacheManager._cache : key -> CacheEntry
    order,             \* CacheManager._order : OrderedDict, oldest first
    cache_call,        \* history: the last CacheManager call, its key, and for a set()
                       \* the current_size that _evict_if_needed started from
    cache_ret,         \* history: value returned by the last get()
    used,              \* history: keys by last use (set, or get hit), oldest first
    evicted,           \* history: keys removed by _evict_if_needed in the last set()
    promoted,          \* history: the key of a get() hit followed only by sets of new keys,
                       \* and whether the last of these sets made the one eviction
    bpolicy,           \* BudgetTracker.policy, read once in __init__
    budget,            \* the BudgetTracker, its clock, the requests in flight and history
    retrying,          \* the one call of retry_with_backoff: its policy, locals and history
    timing,            \* the one call of apply_timeout: its policy, locals and history
    router,            \* the routing policy and the last select_provider
    fallback,          \* the one call of execute_with_fallback: its locals and history
    loader,            \* a policy loader, its source file and the threads that use it
    image,             \* the image requests being served by generate_images
    sanitizing,        \* the response handed to sanitize_response and what came back
    screening,         \* the text handed to check_toxicity, its policy and what came back
    flights,           \* the attempts in flight on the breaker and their history
    keying             \* two image requests and the cache keys built for them

cbVars == <<breaker, cb_call, cb_ret, consec_failures, admitted, cb_from, reopened>>
cacheVars == <<policy, cache, order, cache_call, cache_ret, used, evicted, promoted>>
budgetVars == <<bpolicy, budget>>
vars == <<now, breaker, cb_call, cb_ret, consec_failures, admitted, cb_from, reopened,
          policy, cache, order, cache_call, cache_ret, used, evicted, promoted,
          bpolicy, budget, retrying, timing, router,
          fallback, loader, image, sanitizing, screening, flights, keying>>

\* The budget tracker and the image requests that use it.
utc == budget.utc                \* datetime.now(timezone.utc), in whole hours
tracker == budget.tracker        \* the counters and reset timestamps
b_call == budget.b_call          \* history: the last BudgetTracker call and its amount
b_ret == budget.b_ret            \* history: (allowed, reason) of the last check_budget()
crossed == budget.crossed        \* history: a daily reset hour has gone by since
                                 \* _ensure_resets last ran
reqs == budget.reqs              \* the image requests in flight: position, estimated cost

\* retry_with_backoff.
rpolicy == retrying.rpolicy          \* the RetryConfig it reads
r_pc == retrying.r_pc                \* where the call stands
attempt == retrying.attempt          \* the local attempt
delay == retrying.delay              \* the local delay, in milliseconds
invocations == retrying.invocations  \* history: how many times func has been invoked
sleeps == retrying.sleeps            \* history: the delays slept, in order
failures == retrying.failures        \* history: the errors func has raised, in order
r_out == retrying.r_out              \* what the caller received

\* apply_timeout.
tpolicy == timing.tpolicy        \* the TimeoutConfig it reads
t_call == timing.t_call          \* the arguments provider_name and endpoint
t_pc == timing.t_pc              \* where the call stands
t_deadline == timing.t_deadline  \* the timeout handed to asyncio.wait_for, None without
t_elapsed == timing.t_elapsed    \* seconds the operation has been running
t_raised == timing.t_raised      \* history: the error the operation itself raised
t_out == timing.t_out            \* what the caller received

\* select_provider.
routing == router.routing        \* the RoutingPolicy it reads
sel_call == router.sel_call      \* history: the arguments of the last call
sel_ret == router.sel_ret        \* history: (provider, fallback chain) it returned

\* What each component leaves alone.
lastVars == <<screening, flights, keying>>
moreVars == <<fallback, loader, image, sanitizing, lastVars>>
notBreaker == <<cacheVars, budgetVars, retrying, timing, router, moreVars>>
notCache == <<cbVars, budgetVars, retrying, timing, router, moreVars>>
notBudget == <<now, cbVars, cacheVars, bpolicy, retrying, timing, router, moreVars>>
notRetry == <<now, cbVars, cacheVars, budgetVars, timing, router, moreVars>>
notTimeout == <<now, cbVars, cacheVars, budgetVars, retrying, router, moreVars>>
notRouter == <<now, cbVars, cacheVars, budgetVars, retrying, timing, moreVars>>
notFallback == <<now, cbVars, cacheVars, budgetVars, retrying, timing, router,
                 loader, image, sanitizing, lastVars>>
notLoader == <<now, cbVars, cacheVars, budgetVars, retrying, timing, router,
               fallback, image, sanitizing, lastVars>>
notSanitizing == <<now, cbVars, cacheVars, budgetVars, retrying, timing, router,
                   fallback, loader, image, lastVars>>

\* No budget tracker has been built.
BudgetIdle ==
    /\ bpolicy = [enabled |-> TRUE, reset_hour_utc |-> 0]
    /\ budget = [utc |-> 0,
                 tracker |-> [daily_spent |-> 0, monthly_spent |-> 0,
                              last_daily_reset |-> 0, last_monthly_reset |-> 0],
                 b_call |-> [op |-> "init", amount |-> 0],
                 b_ret |-> [allowed |-> TRUE, reason |-> ""],
                 crossed |-> FALSE,
                 reqs |-> << >>]

\* A value that stands for no error and no result.
Nothing == [kind |-> "", words |-> {}]

\* retry_with_backoff has not been called.
RetryIdle ==
    retrying = [rpolicy |-> [enabled |-> TRUE, max_attempts |-> 1,
                             initial_delay_seconds |-> 0, backoff_factor |-> 0,
                             max_delay_seconds |-> 0,
                             retry_on_status_codes |->
                                 [typed |-> "int", codes |-> << >>],
                             retry_on_exceptions |-> {}],
                r_pc |-> "idle", attempt |-> 0, delay |-> 0, invocations |-> 0,
                sleeps |-> << >>, failures |-> << >>, r_out |-> Nothing]

\* apply_timeout has not been called.
TimeoutIdle ==
    timing = [tpolicy |-> [enabled |-> TRUE, per_provider_timeouts |-> << >>,
                           per_endpoint_timeouts |-> << >>],
              t_call |-> [provider_name |-> "", endpoint |-> ""],
              t_pc |-> "idle", t_deadline |-> None, t_elapsed |-> 0,
              t_raised |-> Nothing, t_out |-> Nothing]

\* select_provider has not been called.
RouterIdle ==
    router = [routing |-> [default_provider |-> "openai", providers |-> << >>],
              sel_call |-> [requested_provider |-> "", cost_mode |-> ""],
              sel_ret |-> [provider |-> "", fallback_chain |-> << >>]]

\* execute_with_fallback has not been called.
NoFallback ==
    [f_call |-> [provider |-> "", fallback_chain |-> << >>],
     attempts |-> << >>, i |-> 0, f_pc |-> "idle",
     tried |-> << >>, errors |-> << >>, f_out |-> Nothing]
FallbackIdle == fallback = << >>

\* No policy loader has been built.
LoaderIdle == loader = << >>

\* generate_images serves no request.
NoImage ==
    [im_pc |-> "idle",
     im_req |-> [provider |-> "", prompt |-> {}],
     im_sent |-> [provider |-> "", prompt |-> {}],
     im_key |-> 0, im_selected |-> "", im_cost |-> 0,
     im_attempts |-> << >>, im_i |-> 0,
     im_status |-> 0, im_detail |-> << >>,
     im_response |-> [data |-> << >>, provider |-> "", prompt |-> {}],
     im_invoked |-> << >>, im_failed |-> 0, im_steps |-> << >>,
     im_before |-> [tracker |-> [daily_spent |-> 0, monthly_spent |-> 0,
                                 last_daily_reset |-> 0,
                                 last_monthly_reset |-> 0],
                    utc |-> 0, keys |-> {}],
     served |-> 0]
ImageIdle == image = << >>

\* sanitize_response has not been called.
SanitizingIdle == sanitizing = << >>

\* check_toxicity has not been called.
ScreeningIdle == screening = << >>

\* No attempt is made on the breaker.
FlightsIdle == flights = << >>

\* No cache key is built.
KeyingIdle == keying = << >>

LastIdle == ScreeningIdle /\ FlightsIdle /\ KeyingIdle
MoreIdle == FallbackIdle /\ LoaderIdle /\ ImageIdle /\ SanitizingIdle /\ LastIdle

\* The components modelled further down are not in use.
LaterIdle == BudgetIdle /\ RetryIdle /\ TimeoutIdle /\ RouterIdle /\ MoreIdle

\* ------------------------------------------------------- circuit breaker
CLOSED == "closed"
OPEN == "open"
HALF_OPEN == "half_open"

\* CircuitBreakerConfig.failure_threshold, as the manager passes it on.
failure_threshold == 3
\* CircuitBreakerConfig.recovery_timeout_seconds, as the manager passes it on.
timeout == 2
success_threshold == 2
half_open_max_calls == 3

\* The dataclass defaults of a freshly created breaker.
CircuitBreaker ==
    [state |-> CLOSED, failure_count |-> 0, success_count |-> 0,
     last_failure_time |-> None, half_open_calls |-> 0]

\* record_success that counts the successes in HalfOpen and never closes.
record_success_never_closes(b) ==
    IF b.state = HALF_OPEN
    THEN [b EXCEPT !.success_count = b.success_count + 1]
    ELSE IF b.state = CLOSED
         THEN [b EXCEPT !.failure_count = 0]
         ELSE b

\* record_success that forgets to clear failure_count when it closes.
record_success_keeps_failures(b) ==
    IF b.state = HALF_OPEN
    THEN LET sc == b.success_count + 1 IN
         IF sc >= success_threshold
         THEN [b EXCEPT !.state = CLOSED, !.success_count = 0, !.half_open_calls = 0]
         ELSE [b EXCEPT !.success_count = sc]
    ELSE IF b.state = CLOSED
         THEN [b EXCEPT !.failure_count = 0]
         ELSE b

record_success(b) ==
    IF b.state = HALF_OPEN
    THEN LET sc == b.success_count + 1 IN
         IF sc >= success_threshold
         THEN [b EXCEPT !.state = CLOSED, !.failure_count = 0,
                        !.success_count = 0, !.half_open_calls = 0]
         ELSE [b EXCEPT !.success_count = sc]
    ELSE IF b.state = CLOSED
         THEN [b EXCEPT !.failure_count = 0]
         ELSE b

\* record_failure that opens only above the threshold.
record_failure_above_threshold(b, t) ==
    LET b1 == [b EXCEPT !.last_failure_time = t] IN
    IF b1.state = HALF_OPEN
    THEN [b1 EXCEPT !.state = OPEN, !.success_count = 0, !.half_open_calls = 0]
    ELSE IF b1.state = CLOSED
         THEN LET fc == b1.failure_count + 1 IN
              IF fc > failure_threshold
              THEN [b1 EXCEPT !.failure_count = fc, !.state = OPEN]
              ELSE [b1 EXCEPT !.failure_count = fc]
         ELSE b1

\* record_failure that reopens without clearing success_count.
record_failure_keeps_successes(b, t) ==
    LET b1 == [b EXCEPT !.last_failure_time = t] IN
    IF b1.state = HALF_OPEN
    THEN [b1 EXCEPT !.state = OPEN, !.half_open_calls = 0]
    ELSE IF b1.state = CLOSED
         THEN LET fc == b1.failure_count + 1 IN
              IF fc >= failure_threshold
              THEN [b1 EXCEPT !.failure_count = fc, !.state = OPEN]
              ELSE [b1 EXCEPT !.failure_count = fc]
         ELSE b1

record_failure(b, t) ==
    LET b1 == [b EXCEPT !.last_failure_time = t] IN
    IF b1.state = HALF_OPEN
    THEN [b1 EXCEPT !.state = OPEN, !.success_count = 0, !.half_open_calls = 0]
    ELSE IF b1.state = CLOSED
         THEN LET fc == b1.failure_count + 1 IN
              IF fc >= failure_threshold
              THEN [b1 EXCEPT !.failure_count = fc, !.state = OPEN]
              ELSE [b1 EXCEPT !.failure_count = fc]
         ELSE b1

\* The timeout test with a strict comparison.
timeout_elapsed_strict(b, t) ==
    Truthy(b.last_failure_time) /\ (t - b.last_failure_time) > timeout

\* The test of line 71: the recovery timeout has elapsed at time t.
timeout_elapsed(b, t) ==
    Truthy(b.last_failure_time) /\ (t - b.last_failure_time) >= timeout

\* can_attempt that admits every call in HalfOpen and counts it.
can_attempt_uncapped(b, t) ==
    IF b.state = CLOSED
    THEN [ret |-> TRUE, b |-> b]
    ELSE IF b.state = OPEN
         THEN IF timeout_elapsed(b, t)
              THEN [ret |-> TRUE,
                    b |-> [b EXCEPT !.state = HALF_OPEN, !.half_open_calls = 0]]
              ELSE [ret |-> FALSE, b |-> b]
         ELSE [ret |-> TRUE,
               b |-> [b EXCEPT !.half_open_calls = b.half_open_calls + 1]]

\* can_attempt returns a bool and may change the breaker: both are given.
can_attempt(b, t) ==
    IF b.state = CLOSED
    THEN [ret |-> TRUE, b |-> b]
    ELSE IF b.state = OPEN
         THEN IF timeout_elapsed(b, t)
              THEN [ret |-> TRUE,
                    b |-> [b EXCEPT !.state = HALF_OPEN, !.half_open_calls = 0]]
              ELSE [ret |-> FALSE, b |-> b]
         ELSE IF b.state = HALF_OPEN
              THEN IF b.half_open_calls < half_open_max_calls
                   THEN [ret |-> TRUE,
                         b |-> [b EXCEPT !.half_open_calls = b.half_open_calls + 1]]
                   ELSE [ret |-> FALSE, b |-> b]
              ELSE [ret |-> FALSE, b |-> b]

\* History of the HalfOpen period: reset whenever the breaker is not HalfOpen.
AdmittedAfter(b2, was, ret) ==
    IF b2.state # HALF_OPEN THEN 0
    ELSE IF ret THEN (IF was > half_open_max_calls THEN was ELSE was + 1)
    ELSE was

\* The calls on the breaker, with the history they leave.
DoRecordSuccess ==
    /\ breaker' = record_success(breaker)
    /\ cb_call' = "record_success"
    /\ consec_failures' = 0
    /\ admitted' = AdmittedAfter(breaker', admitted, FALSE)
    /\ cb_from' = breaker.state
    /\ reopened' = FALSE
    /\ UNCHANGED cb_ret

DoRecordFailure ==
    /\ breaker' = record_failure(breaker, now)
    /\ cb_call' = "record_failure"
    /\ consec_failures' = IF consec_failures >= failure_threshold
                          THEN consec_failures ELSE consec_failures + 1
    /\ admitted' = AdmittedAfter(breaker', admitted, FALSE)
    /\ cb_from' = breaker.state
    /\ reopened' = (breaker.state = HALF_OPEN)
    /\ UNCHANGED cb_ret

DoCanAttempt ==
    LET r == can_attempt(breaker, now) IN
    /\ breaker' = r.b
    /\ cb_ret' = r.ret
    /\ cb_call' = "can_attempt"
    /\ admitted' = AdmittedAfter(r.b, admitted, r.ret)
    /\ cb_from' = breaker.state
    /\ UNCHANGED <<consec_failures, reopened>>

CallRecordSuccess ==
    /\ DoRecordSuccess
    /\ UNCHANGED now
    /\ UNCHANGED notBreaker

CallRecordFailure ==
    /\ DoRecordFailure
    /\ UNCHANGED now
    /\ UNCHANGED notBreaker

CallCanAttempt ==
    /\ DoCanAttempt
    /\ UNCHANGED now
    /\ UNCHANGED notBreaker

\* The wall clock advances between two calls.
TickBreaker ==
    /\ now < MaxTime
    /\ now' = now + 1
    /\ UNCHANGED cbVars
    /\ UNCHANGED notBreaker

\* ------------------------------------------------------- cache manager
\* Largest clock value explored with the cache.
MaxCacheTime == 3
\* Number of distinct cache keys (request fingerprints) explored.
NumKeys == 3
Keys == 1..NumKeys

\* The configured values of CachingPolicy.size_limits.max_entries explored.
MaxEntriesChoices == {1, 2}
\* CachingPolicy.size_limits.max_size_mb
max_size_mb == 1
\* CachingPolicy.ttl.default_seconds
default_seconds == 2
\* The one endpoint main.py stores under, and its configured TTL.
ImagesEndpoint == "/v1/images/generate"
ImagesTTL == 1
per_endpoint_seconds == [e \in {ImagesEndpoint} |-> ImagesTTL]
Endpoints == {"default", ImagesEndpoint}

\* A cached response: an opaque payload, known by its identity and by
\* len(str(value).encode('utf-8')), the length of its serialisation.
SmallBytes == 300000
LargeBytes == 700000
Values == {[id |-> 1, bytes |-> SmallBytes],
           [id |-> 2, bytes |-> LargeBytes]}
\* What get() returns for a miss (Python's None).
Absent == [id |-> 0, total |-> 0]

\* Sequence s without the element k.
Without(s, k) == SelectSeq(s, LAMBDA x : x # k)
\* Function c without the key k.
Pop(c, k) == [x \in DOMAIN c \ {k} |-> c[x]]

RECURSIVE SumSizes(_, _)
SumSizes(c, ks) ==
    IF ks = {} THEN 0
    ELSE LET k == CHOOSE x \in ks : TRUE IN c[k].size + SumSizes(c, ks \ {k})
\* sum(entry.size for entry in self._cache.values())
TotalSize(c) == SumSizes(c, DOMAIN c)

CacheEntry(value, ttl, t) ==
    [value |-> value, expires_at |-> t + ttl, size |-> value.bytes]

\* is_expired with the boundary instant counted as expired.
is_expired_at_boundary(entry, t) == t >= entry.expires_at

is_expired(entry, t) == t > entry.expires_at

_get_ttl(endpoint) ==
    IF ~policy.ttl_enabled THEN 0
    ELSE IF endpoint \in DOMAIN per_endpoint_seconds
         THEN per_endpoint_seconds[endpoint]
         ELSE default_seconds

max_size_bytes == max_size_mb * 1024 * 1024

\* The eviction test that needs both ceilings to be exceeded.
over_limits_both(c, current_size) ==
    Cardinality(DOMAIN c) > policy.max_entries /\ current_size > max_size_bytes

\* The loop condition of _evict_if_needed.
over_limits(c, current_size) ==
    Cardinality(DOMAIN c) > policy.max_entries \/ current_size > max_size_bytes

\* The key the loop removes next: next(iter(self._order)).
oldest_key(o) == o[1]
\* self._order.popitem(last=False)
popitem_first(o) == Tail(o)

RECURSIVE evict_loop(_, _, _)
evict_loop(c, o, current_size) ==
    IF over_limits(c, current_size) /\ o # << >>
    THEN LET k == oldest_key(o) IN
         IF k \in DOMAIN c
         THEN evict_loop(Pop(c, k), popitem_first(o), current_size - c[k].size)
         ELSE evict_loop(c, popitem_first(o), current_size)
    ELSE [cache |-> c, order |-> o]

\* Eviction that removes the newest entry: popitem(last=True).
RECURSIVE evict_newest_loop(_, _, _)
evict_newest_loop(c, o, current_size) ==
    IF over_limits(c, current_size) /\ o # << >>
    THEN LET k == o[Len(o)] IN
         IF k \in DOMAIN c
         THEN evict_newest_loop(Pop(c, k), SubSeq(o, 1, Len(o) - 1),
                                current_size - c[k].size)
         ELSE evict_newest_loop(c, SubSeq(o, 1, Len(o) - 1), current_size)
    ELSE [cache |-> c, order |-> o]

_evict_newest(c, o) == evict_newest_loop(c, o, TotalSize(c))

_evict_if_needed(c, o) == evict_loop(c, o, TotalSize(c))

\* self._order.move_to_end(key) left out.
move_to_end_forgotten(o, key) == o

\* self._order.move_to_end(key)
move_to_end(o, key) == Append(Without(o, key), key)

\* get returns a value and may change _cache and _order: all three are given.
get(c, o, key, t) ==
    IF ~policy.enabled
    THEN [ret |-> Absent, cache |-> c, order |-> o]
    ELSE IF key \in DOMAIN c
         THEN IF is_expired(c[key], t)
              THEN [ret |-> Absent, cache |-> Pop(c, key), order |-> Without(o, key)]
              ELSE [ret |-> c[key].value, cache |-> c, order |-> move_to_end(o, key)]
         ELSE [ret |-> Absent, cache |-> c, order |-> o]

set(c, o, key, value, endpoint, t) ==
    IF ~policy.enabled
    THEN [cache |-> c, order |-> o]
    ELSE LET ttl == _get_ttl(endpoint)
             c1 == IF key \in DOMAIN c THEN Pop(c, key) ELSE c
             o1 == IF key \in DOMAIN c THEN Without(o, key) ELSE o
             entry == CacheEntry(value, ttl, t)
             c2 == [x \in DOMAIN c1 \cup {key} |-> IF x = key THEN entry ELSE c1[x]]
             o2 == Append(Without(o1, key), key)
         IN  _evict_if_needed(c2, o2)

\* History: no get() hit is being followed.
NoPromotion == [key |-> None, evicting |-> FALSE]

\* History: the keys of s that are still cached in c, in the order of s.
Present(s, c) == SelectSeq(s, LAMBDA x : x \in DOMAIN c)

\* What a call of get(key) does to the cache manager.
DoGet(key) ==
    LET r == get(cache, order, key, now) IN
    /\ cache' = r.cache
    /\ order' = r.order
    /\ cache_ret' = r.ret
    /\ cache_call' = [op |-> "get", key |-> key, total |-> 0]
    /\ used' = IF r.ret # Absent
               THEN Append(Without(used, key), key)
               ELSE Present(used, r.cache)
    /\ evicted' = {}
    /\ promoted' = IF r.ret # Absent
                   THEN [key |-> key, evicting |-> FALSE] ELSE NoPromotion

CallGet(key) ==
    /\ DoGet(key)
    /\ UNCHANGED <<now, policy>>
    /\ UNCHANGED notCache

\* What a call of set(key, value, endpoint) does to the cache manager.
DoSet(key, value, endpoint) ==
    LET r == set(cache, order, key, value, endpoint, now) IN
    /\ cache' = r.cache
    /\ order' = r.order
    /\ cache_call' = [op |-> "set", key |-> key,
                      total |-> IF policy.enabled
                                THEN TotalSize(Pop(cache, key)) + value.bytes ELSE 0]
    /\ used' = IF policy.enabled
               THEN Present(Append(Without(used, key), key), r.cache)
               ELSE used
    /\ evicted' = IF policy.enabled THEN (DOMAIN cache \cup {key}) \ DOMAIN r.cache ELSE {}
    /\ promoted' = IF promoted.key = None \/ promoted.evicting \/ key \in DOMAIN cache
                   THEN NoPromotion
                   ELSE IF DOMAIN cache \subseteq DOMAIN r.cache
                        THEN promoted
                        ELSE IF Cardinality((DOMAIN cache \cup {key}) \ DOMAIN r.cache) = 1
                             THEN [promoted EXCEPT !.evicting = TRUE]
                             ELSE NoPromotion

CallSet(key, value, endpoint) ==
    /\ DoSet(key, value, endpoint)
    /\ UNCHANGED <<now, policy, cache_ret>>
    /\ UNCHANGED notCache

CallClear ==
    /\ cache' = << >>
    /\ order' = << >>
    /\ cache_call' = [op |-> "clear", key |-> None, total |-> 0]
    /\ used' = << >>
    /\ evicted' = {}
    /\ promoted' = NoPromotion
    /\ UNCHANGED <<now, policy, cache_ret>>
    /\ UNCHANGED notCache

\* The wall clock advances between two calls.
TickCache ==
    /\ now < MaxCacheTime
    /\ now' = now + 1
    /\ cache_call' = [op |-> "tick", key |-> None, total |-> 0]
    /\ promoted' = IF promoted.evicting THEN NoPromotion ELSE promoted
    /\ UNCHANGED <<policy, cache, order, cache_ret, used, evicted>>
    /\ UNCHANGED notCache

\* CacheManager.__init__ with the given policy.
CacheManager(p) ==
    /\ policy = p
    /\ cache = << >>
    /\ order = << >>
    /\ cache_call = [op |-> "init", key |-> None, total |-> 0]
    /\ cache_ret = Absent
    /\ used = << >>
    /\ evicted = {}
    /\ promoted = NoPromotion

\* A CachingPolicy: enabled, ttl.enabled and size_limits.max_entries; the
\* other fields are the same in every policy explored.
CachingPolicy(en, ttl, n) == [enabled |-> en, ttl_enabled |-> ttl, max_entries |-> n]

BreakerIdle ==
    /\ breaker = CircuitBreaker
    /\ cb_call = "init"
    /\ cb_ret = TRUE
    /\ consec_failures = 0
    /\ admitted = 0
    /\ cb_from = CLOSED
    /\ reopened = FALSE

InitCache ==
    /\ now = StartTime
    /\ \E en \in BOOLEAN, ttl \in BOOLEAN, n \in MaxEntriesChoices :
          CacheManager(CachingPolicy(en, ttl, n))
    /\ BreakerIdle
    /\ LaterIdle

NextCache ==
    \/ \E key \in Keys : CallGet(key)
    \/ \E key \in Keys, value \in Values, endpoint \in Endpoints :
          CallSet(key, value, endpoint)
    \/ CallClear
    \/ TickCache

SpecCache == InitCache /\ [][NextCache]_vars

InitBreaker ==
    /\ now = StartTime
    /\ BreakerIdle
    /\ CacheManager(CachingPolicy(TRUE, TRUE, 2))
    /\ LaterIdle

NextBreaker ==
    \/ CallRecordSuccess
    \/ CallRecordFailure
    \/ CallCanAttempt
    \/ TickBreaker

SpecBreaker == InitBreaker /\ [][NextBreaker]_vars

\* ---------------------------------------------------- cache properties
\* The step is a get(k) on a cached key of an enabled cache.
GetOfCached(k) ==
    /\ cache_call' = [op |-> "get", key |-> k, total |-> 0]
    /\ policy.enabled
    /\ k \in DOMAIN cache

\* The step is a set() of a key that is not cached, on an enabled cache.
SetOfNewKey ==
    /\ cache_call'.op = "set"
    /\ policy.enabled
    /\ cache_call'.key \notin DOMAIN cache

\* C6 as stated: get(key) returns the stored value while now < expires_at,
\* and from now >= expires_at on (now = expires_at included) it returns absent
\* and removes the entry.
C6_ExpiredFromExpiresAt ==
    [][ \A k \in Keys : GetOfCached(k) =>
          IF now < cache[k].expires_at
          THEN cache_ret' = cache[k].value /\ k \in DOMAIN cache'
          ELSE cache_ret' = Absent /\ k \notin DOMAIN cache' ]_vars

\* C6 amended: get(key) returns the stored value while now <= expires_at,
\* and once now > expires_at it returns absent and removes the entry.
C6_ExpiredAfterExpiresAt ==
    [][ \A k \in Keys : GetOfCached(k) =>
          IF now <= cache[k].expires_at
          THEN cache_ret' = cache[k].value /\ k \in DOMAIN cache'
          ELSE cache_ret' = Absent /\ k \notin DOMAIN cache' ]_vars

\* A get() made at the very instant expires_at has returned the value of an
\* entry that was stored with a positive TTL.
C6_Witness ==
    /\ cache_call.op = "get" /\ cache_ret # Absent
    /\ policy.ttl_enabled
    /\ cache_call.key \in DOMAIN cache
    /\ cache[cache_call.key].expires_at = now
    /\ cache_ret = cache[cache_call.key].value

\* C7: with time-based expiry disabled by policy (resolved TTL 0) a stored
\* entry never becomes absent through the passage of time: get(key) returns
\* its value for as long as it is cached.
C7_NoExpiryWhenTTLDisabled ==
    [][ \A k \in Keys : (GetOfCached(k) /\ ~policy.ttl_enabled) =>
          (cache_ret' = cache[k].value /\ k \in DOMAIN cache') ]_vars

\* C8: a set() of a new key on a cache that holds max_entries entries, the
\* size ceiling not being reached, leaves exactly max_entries entries: the new
\* key is in, and the one key gone is the least recently used one.
C8_EvictsLeastRecentlyUsed ==
    [][ ( /\ SetOfNewKey
          /\ Cardinality(DOMAIN cache) = policy.max_entries
          /\ cache_call'.total <= max_size_bytes ) =>
          /\ Cardinality(DOMAIN cache') = policy.max_entries
          /\ cache_call'.key \in DOMAIN cache'
          /\ DOMAIN cache \ DOMAIN cache' = {used[1]} ]_vars

\* The set() of one more key than max_entries has evicted exactly one key
\* while the sizes stayed under the ceiling.
C8_Witness ==
    /\ cache_call.op = "set"
    /\ cache_call.key \in DOMAIN cache
    /\ Cardinality(DOMAIN cache) = policy.max_entries
    /\ Cardinality(evicted) = 1
    /\ cache_call.total <= max_size_bytes
    /\ policy.max_entries > 1

\* C9: in every state reachable by get/set/clear the cache holds at most
\* max_entries entries and their sizes sum to at most max_size_bytes.
C9_WithinLimits ==
    /\ Cardinality(DOMAIN cache) <= policy.max_entries
    /\ TotalSize(cache) <= max_size_bytes

\* A set() has evicted on the size ceiling alone: fewer than max_entries
\* entries are left.
C9_Witness ==
    /\ cache_call.op = "set"
    /\ evicted # {}
    /\ Cardinality(DOMAIN cache) < policy.max_entries

\* The step is the set() of a new key that makes the one eviction after a
\* get() hit on promoted.key, only sets of new keys having come between.
EvictionAfterHit == ~promoted.evicting /\ promoted'.evicting

\* C10 as stated: after a get() hit on k followed only by sets of new keys
\* that force exactly one eviction, the evicted key is the oldest key other
\* than k and k is still cached.
C10_HitKeyNeverEvicted ==
    [][ EvictionAfterHit =>
          /\ promoted.key \in DOMAIN cache'
          /\ Len(used) >= 2 => evicted' = {Without(used, promoted.key)[1]} ]_vars

\* C10 amended: in that eviction, if a key that was cached when k was hit is
\* still cached (k is not the least recently used key), the evicted key is the
\* oldest key other than k and k is still cached; otherwise k is the key
\* evicted.
C10_HitKeyOutlivesOlderKeys ==
    [][ EvictionAfterHit =>
          IF used[1] # promoted.key
          THEN /\ promoted.key \in DOMAIN cache'
               /\ evicted' = {Without(used, promoted.key)[1]}
          ELSE evicted' = {promoted.key} ]_vars

\* The key hit by get() has survived the eviction that followed, a key
\* cached before the hit having been evicted in its place.
C10_Witness ==
    /\ promoted.evicting
    /\ promoted.key \in DOMAIN cache
    /\ Cardinality(DOMAIN cache) = policy.max_entries
    /\ cache_call.op = "set"
    /\ cache_call.key \in DOMAIN cache
    /\ Cardinality(evicted) = 1

\* ------------------------------------------- circuit breaker properties
\* Seconds since the last recorded failure.
SinceFailure == now - breaker.last_failure_time

\* C1: once failure_threshold record_failure calls have been made in a row
\* (no record_success between them) the breaker is Open, and a can_attempt()
\* made less than timeout seconds after the last failure returns False.
C1_OpenAfterThresholdFailures ==
    [][ (cb_call = "record_failure" /\ consec_failures >= failure_threshold) =>
          /\ breaker.state = OPEN
          /\ (CallCanAttempt /\ SinceFailure < timeout) =>
                (cb_ret' = FALSE /\ breaker'.state = OPEN) ]_vars

\* A breaker that counted failure_threshold failures in Closed has just
\* refused an attempt.
C1_Witness ==
    /\ cb_call = "can_attempt" /\ cb_ret = FALSE
    /\ consec_failures >= failure_threshold
    /\ breaker.state = OPEN
    /\ breaker.failure_count = failure_threshold
    /\ reopened = FALSE

\* C2: on an Open breaker, can_attempt() before timeout seconds have passed
\* since last_failure_time returns False and leaves it Open; once they have
\* passed, can_attempt() returns True and leaves it HalfOpen.
C2_OpenUntilTimeout ==
    [][ (breaker.state = OPEN /\ CallCanAttempt) =>
          IF SinceFailure < timeout
          THEN cb_ret' = FALSE /\ breaker'.state = OPEN
          ELSE cb_ret' = TRUE /\ breaker'.state = HALF_OPEN ]_vars

\* The permission check made exactly timeout seconds after the failure
\* has moved the breaker to HalfOpen.
C2_Witness ==
    /\ cb_call = "can_attempt" /\ cb_ret = TRUE
    /\ cb_from = OPEN /\ breaker.state = HALF_OPEN
    /\ SinceFailure = timeout

\* C3: during one HalfOpen period can_attempt() answers True at most
\* half_open_max_calls times, the call that entered HalfOpen included.
C3_AtMostMaxProbes ==
    breaker.state = HALF_OPEN => admitted <= half_open_max_calls

\* C4: a record_failure on a HalfOpen breaker moves it to Open with
\* success_count 0, whatever the counters were, and a can_attempt() before
\* the timeout has passed then returns False.
C4_FailureInHalfOpenReopens ==
    [][ /\ (breaker.state = HALF_OPEN /\ CallRecordFailure) =>
              (breaker'.state = OPEN /\ breaker'.success_count = 0)
        /\ (reopened /\ CallCanAttempt /\ SinceFailure < timeout) =>
              (cb_ret' = FALSE /\ breaker'.state = OPEN) ]_vars

\* A breaker reopened from HalfOpen has just refused an attempt.
C4_Witness ==
    /\ reopened /\ cb_call = "can_attempt" /\ cb_ret = FALSE
    /\ breaker.state = OPEN /\ breaker.success_count = 0

\* C5: in HalfOpen, the record_success that brings success_count to
\* success_threshold closes the breaker with failure_count, success_count and
\* half_open_calls all 0; an earlier record_success leaves it HalfOpen.
C5_SuccessThresholdCloses ==
    [][ (breaker.state = HALF_OPEN /\ CallRecordSuccess) =>
          IF breaker.success_count + 1 >= success_threshold
          THEN /\ breaker'.state = CLOSED
               /\ breaker'.failure_count = 0
               /\ breaker'.success_count = 0
               /\ breaker'.half_open_calls = 0
          ELSE /\ breaker'.state = HALF_OPEN
               /\ breaker'.success_count = breaker.success_count + 1 ]_vars

\* The breaker has just been closed from HalfOpen by a success.
C5_Witness ==
    /\ cb_call = "record_success" /\ cb_from = HALF_OPEN
    /\ breaker.state = CLOSED /\ breaker.failure_count = 0

\* C34: after any sequence of can_attempt, record_success and record_failure
\* the counters are within their thresholds (failure_count in
\* 0..failure_threshold, success_count in 0..success_threshold - 1,
\* half_open_calls in 0..half_open_max_calls), success_count is above zero
\* only in HalfOpen, and the breaker is Open only with last_failure_time set.
C34_CountersWithinThresholds ==
    /\ breaker.failure_count \in 0..failure_threshold
    /\ breaker.success_count \in 0..(success_threshold - 1)
    /\ breaker.half_open_calls \in 0..half_open_max_calls
    /\ breaker.success_count > 0 => breaker.state = HALF_OPEN
    /\ breaker.state = OPEN => breaker.last_failure_time # None

\* A HalfOpen breaker with every counter at its largest value.
C34_Witness ==
    /\ breaker.state = HALF_OPEN
    /\ breaker.failure_count = failure_threshold
    /\ breaker.success_count = success_threshold - 1
    /\ breaker.half_open_calls = half_open_max_calls

\* ------------------------------------------------------ budget tracker
\* Money is counted in thousandths of a dollar, time in whole hours since the
\* midnight that opens a month.
HoursPerDay == 24
DaysPerMonth == 2
HoursPerMonth == DaysPerMonth * HoursPerDay
MaxBudgetTime == HoursPerMonth + 2
StartHourChoices == {10, 14}
ResetHourChoices == {0, 12}
per_request_limit_usd == 10
daily_limit_usd == 30
monthly_limit_usd == 50
MaxSpent == 60
Amounts == {10, 20}

\* datetime.replace(hour=h, minute=0, second=0, microsecond=0)
replace_hour(t, h) == (t \div HoursPerDay) * HoursPerDay + h

\* datetime.replace(day=1), the hour of the day kept
replace_day1(t) == (t \div HoursPerMonth) * HoursPerMonth + (t % HoursPerDay)

\* datetime.replace(day=1, hour=0, minute=0, second=0, microsecond=0)
month_start(t) == (t \div HoursPerMonth) * HoursPerMonth

\* A step of a little more than a month from day 1 lands in the next month.
next_monthly_reset(last) ==
    replace_day1(replace_day1(last) + (DaysPerMonth + 1) * HoursPerDay)

\* BudgetTracker._ensure_resets at time t
_ensure_resets(tr, t) ==
    LET daily == IF t >= tr.last_daily_reset + HoursPerDay
                 THEN [tr EXCEPT !.daily_spent = 0,
                                 !.last_daily_reset =
                                     replace_hour(t, bpolicy.reset_hour_utc)]
                 ELSE tr
    IN  IF t >= next_monthly_reset(daily.last_monthly_reset)
        THEN [daily EXCEPT !.monthly_spent = 0,
                           !.last_monthly_reset = month_start(t)]
        ELSE daily

\* record_spend that checks the limits again and drops a spend above them
record_spend_rechecked(tr, amount_usd, t) ==
    IF ~bpolicy.enabled
    THEN tr
    ELSE LET r == _ensure_resets(tr, t)
         IN  IF \/ r.daily_spent + amount_usd > daily_limit_usd
                \/ r.monthly_spent + amount_usd > monthly_limit_usd
             THEN r
             ELSE [r EXCEPT !.daily_spent = r.daily_spent + amount_usd,
                            !.monthly_spent = r.monthly_spent + amount_usd]

\* record_spend without the test of policy.enabled
record_spend_always(tr, amount_usd, t) ==
    LET r == _ensure_resets(tr, t)
    IN  [r EXCEPT !.daily_spent = r.daily_spent + amount_usd,
                  !.monthly_spent = r.monthly_spent + amount_usd]

\* BudgetTracker.record_spend
record_spend(tr, amount_usd, t) ==
    IF ~bpolicy.enabled
    THEN tr
    ELSE LET r == _ensure_resets(tr, t)
         IN  [r EXCEPT !.daily_spent = r.daily_spent + amount_usd,
                       !.monthly_spent = r.monthly_spent + amount_usd]

Allowed == [allowed |-> TRUE, reason |-> ""]
Denied(rule) == [allowed |-> FALSE, reason |-> rule]

\* check_budget that compares what is spent, without the estimate, to the
\* daily and monthly limits
check_budget_spent_only(tr, estimated_cost_usd, t) ==
    IF ~bpolicy.enabled
    THEN [ret |-> Allowed, tr |-> tr]
    ELSE LET r == _ensure_resets(tr, t)
         IN  [tr |-> r,
              ret |-> IF estimated_cost_usd > per_request_limit_usd
                      THEN Denied("per-request limit")
                      ELSE IF r.daily_spent > daily_limit_usd
                      THEN Denied("daily budget")
                      ELSE IF r.monthly_spent > monthly_limit_usd
                      THEN Denied("monthly budget")
                      ELSE Allowed]

\* check_budget with the daily rule tried before the per-request rule
check_budget_daily_first(tr, estimated_cost_usd, t) ==
    IF ~bpolicy.enabled
    THEN [ret |-> Allowed, tr |-> tr]
    ELSE LET r == _ensure_resets(tr, t)
         IN  [tr |-> r,
              ret |-> IF r.daily_spent + estimated_cost_usd > daily_limit_usd
                      THEN Denied("daily budget")
                      ELSE IF estimated_cost_usd > per_request_limit_usd
                      THEN Denied("per-request limit")
                      ELSE IF r.monthly_spent + estimated_cost_usd > monthly_limit_usd
                      THEN Denied("monthly budget")
                      ELSE Allowed]

\* BudgetTracker.check_budget: the answer and the tracker it leaves
check_budget(tr, estimated_cost_usd, t) ==
    IF ~bpolicy.enabled
    THEN [ret |-> Allowed, tr |-> tr]
    ELSE LET r == _ensure_resets(tr, t)
         IN  [tr |-> r,
              ret |-> IF estimated_cost_usd > per_request_limit_usd
                      THEN Denied("per-request limit")
                      ELSE IF r.daily_spent + estimated_cost_usd > daily_limit_usd
                      THEN Denied("daily budget")
                      ELSE IF r.monthly_spent + estimated_cost_usd > monthly_limit_usd
                      THEN Denied("monthly budget")
                      ELSE Allowed]

\* BudgetTracker.__init__ at time t; bpolicy is already set
BudgetTracker(t) ==
    _ensure_resets([daily_spent |-> 0, monthly_spent |-> 0,
                    last_daily_reset |-> replace_hour(t, bpolicy.reset_hour_utc),
                    last_monthly_reset |-> month_start(t)], t)

\* Room is left under the cap on the counters.
CanSpend(amount) ==
    /\ tracker.daily_spent + amount <= MaxSpent
    /\ tracker.monthly_spent + amount <= MaxSpent

CallCheckBudget(estimated_cost_usd) ==
    LET res == check_budget(tracker, estimated_cost_usd, utc)
    IN  /\ reqs = << >>
        /\ budget' = [budget EXCEPT
              !.tracker = res.tr,
              !.b_ret = res.ret,
              !.b_call = [op |-> "check_budget", amount |-> estimated_cost_usd],
              !.crossed = (crossed /\ ~bpolicy.enabled)]
        /\ UNCHANGED notBudget

CallRecordSpend(amount_usd) ==
    /\ reqs = << >>
    /\ CanSpend(amount_usd)
    /\ budget' = [budget EXCEPT
          !.tracker = record_spend(tracker, amount_usd, utc),
          !.b_call = [op |-> "record_spend", amount |-> amount_usd],
          !.crossed = (crossed /\ ~bpolicy.enabled)]
    /\ UNCHANGED notBudget

\* BudgetTracker.get_status
CallGetStatus ==
    /\ reqs = << >>
    /\ budget' = [budget EXCEPT
          !.tracker = _ensure_resets(tracker, utc),
          !.b_call = [op |-> "get_status", amount |-> 0],
          !.crossed = FALSE]
    /\ UNCHANGED notBudget

\* An hour goes by between two calls.
TickBudget ==
    /\ utc < MaxBudgetTime
    /\ budget' = [budget EXCEPT
          !.utc = utc + 1,
          !.crossed = (crossed \/ (utc + 1) % HoursPerDay = bpolicy.reset_hour_utc),
          !.b_call = [op |-> "tick", amount |-> 0]]
    /\ UNCHANGED notBudget

\* The tracker is built at one of the start hours under one of the policies.
InitTracker(requests) ==
    /\ bpolicy \in [enabled : BOOLEAN, reset_hour_utc : ResetHourChoices]
    /\ \E start \in StartHourChoices :
          budget = [utc |-> start,
                    tracker |-> BudgetTracker(start),
                    b_call |-> [op |-> "init", amount |-> 0],
                    b_ret |-> Allowed,
                    crossed |-> FALSE,
                    reqs |-> requests]

InitBudget ==
    /\ now = StartTime
    /\ BreakerIdle
    /\ CacheManager(CachingPolicy(TRUE, TRUE, 2))
    /\ RetryIdle /\ TimeoutIdle /\ RouterIdle /\ MoreIdle
    /\ InitTracker(<< >>)

NextBudget ==
    \/ \E a \in Amounts : CallCheckBudget(a)
    \/ \E a \in Amounts : CallRecordSpend(a)
    \/ CallGetStatus
    \/ TickBudget

SpecBudget == InitBudget /\ [][NextBudget]_vars

\* -------------------------------------------- budget tracker properties
\* The rules of check_budget, read on the counters the call leaves.
OverPerRequest(a) == a > per_request_limit_usd
OverDaily(a) == tracker'.daily_spent + a > daily_limit_usd
OverMonthly(a) == tracker'.monthly_spent + a > monthly_limit_usd

\* C11: with the policy enabled, check_budget reports the first violated rule
\* in the order per-request, daily, monthly: a cost above the per-request
\* ceiling is denied with the per-request reason whatever the counters are, the
\* daily reason is given only when the per-request rule passes, the monthly
\* reason only when both others pass, and the call allows exactly when no rule
\* is violated.
C11_FirstViolatedRuleWins ==
    [][ (bpolicy.enabled /\ b_call'.op = "check_budget") =>
          LET a == b_call'.amount
          IN  /\ OverPerRequest(a) => b_ret' = Denied("per-request limit")
              /\ (~OverPerRequest(a) /\ OverDaily(a)) => b_ret' = Denied("daily budget")
              /\ (~OverPerRequest(a) /\ ~OverDaily(a) /\ OverMonthly(a)) =>
                     b_ret' = Denied("monthly budget")
              /\ (~OverPerRequest(a) /\ ~OverDaily(a) /\ ~OverMonthly(a)) =>
                     b_ret' = Allowed ]_vars

\* A cost above the per-request ceiling has been denied for that reason while
\* the daily counter, too, has no room for it.
C11_Witness ==
    /\ bpolicy.enabled /\ b_call.op = "check_budget"
    /\ b_ret = Denied("per-request limit")
    /\ tracker.daily_spent + b_call.amount > daily_limit_usd

\* C12: with the policy enabled, a check_budget made after the clock has gone
\* past a daily reset hour that no call has yet resolved leaves daily_spent at 0,
\* for every start time and reset hour.
C12_DailyResetAtEveryBoundary ==
    [][ (bpolicy.enabled /\ crossed /\ b_call'.op = "check_budget") =>
          tracker'.daily_spent = 0 ]_vars

\* C14: with the policy disabled, check_budget allows every cost and neither
\* check_budget nor record_spend changes the counters or the reset timestamps.
C14_DisabledIsInert ==
    [][ (~bpolicy.enabled /\ b_call'.op \in {"check_budget", "record_spend"}) =>
          /\ tracker' = tracker
          /\ b_call'.op = "check_budget" => b_ret' = Allowed ]_vars

\* Under a disabled policy a cost above the per-request ceiling has been
\* allowed, with a daily reset still due.
C14_Witness ==
    /\ ~bpolicy.enabled /\ b_call.op = "check_budget"
    /\ b_call.amount > per_request_limit_usd
    /\ b_ret = Allowed /\ crossed

\* ------------------------------- image generation: budget check and record
\* The requests that generate_images serves at the same time; each one awaits
\* its provider between the budget check and the spend record.
NumRequests == 2
Requests == 1..NumRequests
ImageProviders == {"openai", "cipher"}
NoRequest == [pc |-> "idle", provider |-> "", cost |-> 0]

\* estimate_request_cost for the endpoint /v1/images/generate
estimate_request_cost(provider) ==
    IF provider = "openai" THEN 40
    ELSE IF provider = "stable-diffusion" THEN 2
    ELSE IF provider = "cipher" THEN 10
    ELSE 0

\* generate_images up to the await of the provider: estimate_and_check_cost on
\* the selected provider; a denial ends the request.
GenerateImagesCheck(r, selected_provider) ==
    LET estimated_cost == estimate_request_cost(selected_provider)
        res == check_budget(tracker, estimated_cost, utc)
    IN  /\ reqs[r].pc = "idle"
        /\ budget' = [budget EXCEPT
              !.tracker = res.tr,
              !.b_ret = res.ret,
              !.b_call = [op |-> "check_budget", amount |-> estimated_cost],
              !.crossed = (crossed /\ ~bpolicy.enabled),
              !.reqs[r] = IF res.ret.allowed
                          THEN [pc |-> "awaiting", provider |-> selected_provider,
                                cost |-> estimated_cost]
                          ELSE NoRequest]
        /\ UNCHANGED notBudget

\* The provider has answered: generate_images records the estimated cost.
GenerateImagesRecord(r) ==
    /\ reqs[r].pc = "awaiting"
    /\ CanSpend(reqs[r].cost)
    /\ budget' = [budget EXCEPT
          !.tracker = record_spend(tracker, reqs[r].cost, utc),
          !.b_call = [op |-> "record_spend", amount |-> reqs[r].cost],
          !.crossed = (crossed /\ ~bpolicy.enabled),
          !.reqs[r] = NoRequest]
    /\ UNCHANGED notBudget

\* The provider and its fallbacks have failed: nothing is recorded.
GenerateImagesFails(r) ==
    /\ reqs[r].pc = "awaiting"
    /\ budget' = [budget EXCEPT
          !.b_call = [op |-> "failed", amount |-> 0],
          !.reqs[r] = NoRequest]
    /\ UNCHANGED notBudget

InitImageBudget ==
    /\ now = StartTime
    /\ BreakerIdle
    /\ CacheManager(CachingPolicy(TRUE, TRUE, 2))
    /\ RetryIdle /\ TimeoutIdle /\ RouterIdle /\ MoreIdle
    /\ InitTracker([r \in Requests |-> NoRequest])

NextImageBudget ==
    \/ \E r \in Requests, p \in ImageProviders : GenerateImagesCheck(r, p)
    \/ \E r \in Requests : GenerateImagesRecord(r)
    \/ \E r \in Requests : GenerateImagesFails(r)
    \/ TickBudget

SpecImageBudget == InitImageBudget /\ [][NextImageBudget]_vars

\* C13: the spend record of a request adds the cost that its check estimated,
\* whatever the counters have become since that check; so two requests that
\* both passed check_budget before either recorded can leave daily_spent above
\* daily_limit_usd.
C13_RecordWithoutRecheck ==
    [][ \A r \in Requests :
          (bpolicy.enabled /\ reqs[r].pc = "awaiting" /\ b_call'.op = "record_spend"
             /\ reqs'[r].pc = "idle") =>
          /\ tracker'.daily_spent =
                 _ensure_resets(tracker, utc).daily_spent + reqs[r].cost
          /\ tracker'.monthly_spent =
                 _ensure_resets(tracker, utc).monthly_spent + reqs[r].cost ]_vars

\* Every request that passed its check has recorded, and daily_spent is above
\* the daily limit.
C13_Witness ==
    /\ bpolicy.enabled /\ b_call.op = "record_spend"
    /\ \A r \in Requests : reqs[r].pc = "idle"
    /\ tracker.daily_spent > daily_limit_usd

\* generate_images serving one request at a time: a request arrives when no
\* other is between its budget check and its spend record.
SerialCheck(r, selected_provider) ==
    /\ \A q \in Requests : reqs[q].pc = "idle"
    /\ GenerateImagesCheck(r, selected_provider)

NextImageSerial ==
    \/ \E r \in Requests, p \in ImageProviders : SerialCheck(r, p)
    \/ \E r \in Requests : GenerateImagesRecord(r)
    \/ \E r \in Requests : GenerateImagesFails(r)
    \/ TickBudget

SpecImageSerial == InitImageBudget /\ [][NextImageSerial]_vars

\* C37: with image requests served one at a time under an enabled budget
\* policy, daily_spent stays within 0..daily_limit_usd and monthly_spent within
\* 0..monthly_limit_usd.
C37_SerialSpendWithinLimits ==
    bpolicy.enabled =>
        /\ tracker.daily_spent \in 0..daily_limit_usd
        /\ tracker.monthly_spent \in 0..monthly_limit_usd

\* The spends recorded over more than a day have used up the month: one more
\* request would pass the daily limit and fail the monthly one.
C37_Witness ==
    /\ bpolicy.enabled /\ b_call.op = "record_spend"
    /\ tracker.daily_spent > 0
    /\ tracker.daily_spent + estimate_request_cost("cipher") <= daily_limit_usd
    /\ tracker.monthly_spent + estimate_request_cost("cipher") > monthly_limit_usd

\* ------------------------------------------------- retry_with_backoff
\* Delays are in milliseconds. An error is its class and the words of its
\* message; a substring test on the message is a test on its words.
initial_delay_seconds == 500
backoff_factor == 2
max_delay_seconds == 10000
MaxAttemptsChoices == {1, 2, 3}
\* initial_delay_seconds and max_delay_seconds as RetryConfig declares them and
\* as a resilience.yaml may set them: a cap that the second delay reaches, and
\* a first delay above the cap.
InitialDelayChoices == {initial_delay_seconds, 2000}
MaxDelayChoices == {max_delay_seconds, 800}
DefaultStatusCodes == <<"429", "500", "502", "503", "504">>
DefaultExceptions == {"httpx.ConnectError", "httpx.TimeoutException"}

\* retry_on_status_codes as RetryConfig declares it (a list of int), as a YAML
\* file with quoted codes gives it (a list of str), and empty.
StatusCodeChoices ==
    { [typed |-> "int", codes |-> DefaultStatusCodes],
      [typed |-> "str", codes |-> DefaultStatusCodes],
      [typed |-> "int", codes |-> << >>] }

Result == [kind |-> "result", words |-> {}]
TypeError ==
    [kind |-> "TypeError",
     words |-> {"'in <string>' requires string as left operand, not int"}]
RuntimeError == [kind |-> "RuntimeError", words |-> {"Max retry attempts exceeded."}]

\* The failures of the operation.
OperationErrors ==
    { [kind |-> "HTTPStatusError", words |-> {"429", "Too Many Requests"}],
      [kind |-> "HTTPStatusError", words |-> {"503", "Service Unavailable"}],
      [kind |-> "ValueError", words |-> {"Invalid prompt"}],
      [kind |-> "ConnectError", words |-> {"httpx.ConnectError", "connection refused"}] }

\* str.lower()
lower(w) ==
    CASE w = "Too Many Requests" -> "too many requests"
      [] w = "Service Unavailable" -> "service unavailable"
      [] w = "Invalid prompt" -> "invalid prompt"
      [] w = "httpx.ConnectError" -> "httpx.connecterror"
      [] w = "httpx.TimeoutException" -> "httpx.timeoutexception"
      [] w = "OpenAI" -> "openai"
      [] OTHER -> w

\* error_str = str(e).lower()
error_str(e) == {lower(w) : w \in e.words}

\* The any(...) of the except block: it raises TypeError at the first code that
\* is an int, and is False over an empty list of codes.
is_retryable(e) ==
    LET codes == rpolicy.retry_on_status_codes.codes
    IN  IF codes = << >> THEN "False"
        ELSE IF rpolicy.retry_on_status_codes.typed = "int" THEN "TypeError"
        ELSE IF \E i \in 1..Len(codes) :
                   \/ codes[i] \in error_str(e)
                   \/ \E exc_type \in rpolicy.retry_on_exceptions :
                          exc_type \in error_str(e)
             THEN "True"
             ELSE "False"

\* min(delay * backoff_factor, max_delay)
next_delay(d) ==
    IF d * rpolicy.backoff_factor < rpolicy.max_delay_seconds
    THEN d * rpolicy.backoff_factor
    ELSE rpolicy.max_delay_seconds

\* retry_with_backoff is called and awaits func for the first time.
CallRetryWithBackoff ==
    /\ r_pc = "idle"
    /\ retrying' = [retrying EXCEPT
          !.r_pc = "awaiting",
          !.attempt = IF rpolicy.enabled THEN 1 ELSE 0,
          !.delay = IF rpolicy.enabled THEN rpolicy.initial_delay_seconds ELSE 0,
          !.invocations = 1]
    /\ UNCHANGED notRetry

\* func returns: its result goes to the caller.
FuncReturns ==
    /\ r_pc = "awaiting"
    /\ retrying' = [retrying EXCEPT !.r_pc = "returned", !.r_out = Result]
    /\ UNCHANGED notRetry

\* func raises e: outside the loop the error propagates; in the loop the except
\* block classifies it and sleeps or raises.
FuncRaises(e) ==
    LET failed == [retrying EXCEPT !.failures = Append(failures, e)]
    IN  /\ r_pc = "awaiting"
        /\ retrying' =
              IF ~rpolicy.enabled
              THEN [failed EXCEPT !.r_pc = "raised", !.r_out = e]
              ELSE IF is_retryable(e) = "TypeError"
              THEN [failed EXCEPT !.r_pc = "raised", !.r_out = TypeError]
              ELSE IF attempt < rpolicy.max_attempts /\ is_retryable(e) = "True"
              THEN [failed EXCEPT !.r_pc = "sleeping",
                                  !.sleeps = Append(sleeps, delay),
                                  !.delay = next_delay(delay)]
              ELSE [failed EXCEPT !.r_pc = "raised", !.r_out = e]
        /\ UNCHANGED notRetry

\* asyncio.sleep ends: the loop tests attempt < max_attempts and tries again.
SleepEnds ==
    /\ r_pc = "sleeping"
    /\ retrying' =
          IF attempt < rpolicy.max_attempts
          THEN [retrying EXCEPT !.r_pc = "awaiting",
                                !.attempt = attempt + 1,
                                !.invocations = invocations + 1]
          ELSE [retrying EXCEPT !.r_pc = "raised", !.r_out = RuntimeError]
    /\ UNCHANGED notRetry

InitRetry ==
    /\ now = StartTime
    /\ BreakerIdle
    /\ CacheManager(CachingPolicy(TRUE, TRUE, 2))
    /\ BudgetIdle /\ TimeoutIdle /\ RouterIdle /\ MoreIdle
    /\ \E p \in [enabled : BOOLEAN, max_attempts : MaxAttemptsChoices,
                  initial_delay_seconds : InitialDelayChoices,
                  backoff_factor : {backoff_factor},
                  max_delay_seconds : MaxDelayChoices,
                  retry_on_status_codes : StatusCodeChoices,
                  retry_on_exceptions : {DefaultExceptions}] :
          retrying = [rpolicy |-> p, r_pc |-> "idle", attempt |-> 0, delay |-> 0,
                      invocations |-> 0, sleeps |-> << >>, failures |-> << >>,
                      r_out |-> Nothing]

NextRetry ==
    \/ CallRetryWithBackoff
    \/ FuncReturns
    \/ \E e \in OperationErrors : FuncRaises(e)
    \/ SleepEnds

SpecRetry == InitRetry /\ [][NextRetry]_vars

\* The failure is one that the policy names: its message holds one of the
\* configured status codes or one of the configured exception names.
Configured(e) ==
    \/ \E i \in 1..Len(rpolicy.retry_on_status_codes.codes) :
           rpolicy.retry_on_status_codes.codes[i] \in e.words
    \/ rpolicy.retry_on_exceptions \cap e.words # {}

\* C15: with retry enabled, once the operation's first failure is one the
\* policy does not name, the call has ended with that very error after one
\* invocation and no sleep.
C15_NonRetryablePropagatesAtOnce ==
    (rpolicy.enabled /\ failures # << >> /\ ~Configured(failures[1])) =>
        /\ r_pc = "raised"
        /\ invocations = 1
        /\ sleeps = << >>
        /\ r_out = failures[1]

\* C16: the operation is invoked at most max_attempts times, and with retry
\* enabled a call that ended after failures that the policy names, one per
\* attempt, made exactly max_attempts invocations and raised the last failure.
C16_ExactlyMaxAttempts ==
    /\ invocations <= rpolicy.max_attempts
    /\ (/\ rpolicy.enabled /\ r_pc = "raised"
        /\ \A i \in 1..Len(failures) : Configured(failures[i])) =>
            /\ invocations = rpolicy.max_attempts
            /\ r_out = failures[Len(failures)]

\* backoff_factor^n
RECURSIVE Power(_)
Power(n) == IF n = 0 THEN 1 ELSE rpolicy.backoff_factor * Power(n - 1)

\* min(initial_delay * backoff_factor^(k-1), max_delay)
StatedSleep(k) ==
    LET d == rpolicy.initial_delay_seconds * Power(k - 1)
    IN  IF d < rpolicy.max_delay_seconds THEN d ELSE rpolicy.max_delay_seconds

\* C32: there is one sleep between two attempts and none else (none before the
\* first attempt, none after a success or after the attempt that ends the
\* call, and a sleep is always followed by another attempt), and the sleep
\* before attempt k+1 lasts min(initial_delay * backoff_factor^(k-1), max_delay).
C32_SleepsOnlyBetweenAttempts ==
    /\ Len(sleeps) = IF r_pc = "sleeping" THEN invocations
                     ELSE IF invocations = 0 THEN 0 ELSE invocations - 1
    /\ r_pc = "sleeping" => attempt < rpolicy.max_attempts
    /\ \A k \in 1..Len(sleeps) : sleeps[k] = StatedSleep(k)

\* ------------------------------------------------------ apply_timeout
\* Time is counted in seconds from the start of the operation.
default_timeout_seconds == 3
ProviderTimeout == 2
EndpointTimeout == 1
MaxRun == 4
TimeoutProviders == {"openai", "cipher"}
TimeoutEndpoints == {"/v1/images/generate", "/v1/videos/generate"}

\* The dicts of TimeoutConfig: empty as declared, or with one override.
ProviderTimeoutChoices == {<< >>, [p \in {"openai"} |-> ProviderTimeout]}
EndpointTimeoutChoices == {<< >>, [e \in {"/v1/images/generate"} |-> EndpointTimeout]}

TimeoutException == [kind |-> "TimeoutException", words |-> {"Operation timed out"}]

\* What the operation itself may raise: an error of its own, or the
\* asyncio.TimeoutError of a deadline it sets inside.
OwnErrors ==
    { [kind |-> "ValueError", words |-> {"Invalid prompt"}],
      [kind |-> "asyncio.TimeoutError", words |-> {}] }

\* timeout_seconds as apply_timeout resolves it
timeout_seconds(provider_name, endpoint) ==
    IF endpoint \in DOMAIN tpolicy.per_endpoint_timeouts
    THEN tpolicy.per_endpoint_timeouts[endpoint]
    ELSE IF provider_name \in DOMAIN tpolicy.per_provider_timeouts
    THEN tpolicy.per_provider_timeouts[provider_name]
    ELSE default_timeout_seconds

\* except asyncio.TimeoutError: TimeoutException is raised in its place
catches(e) == e.kind \in {"asyncio.TimeoutError", "TimeoutException"}

\* apply_timeout is called and starts the operation, under asyncio.wait_for
\* when the policy is enabled.
CallApplyTimeout(provider_name, endpoint) ==
    /\ t_pc = "idle"
    /\ timing' = [timing EXCEPT
          !.t_pc = "running",
          !.t_call = [provider_name |-> provider_name, endpoint |-> endpoint],
          !.t_deadline = IF tpolicy.enabled
                         THEN timeout_seconds(provider_name, endpoint)
                         ELSE None]
    /\ UNCHANGED notTimeout

\* A second goes by with the operation still running.
OperationRuns ==
    /\ t_pc = "running"
    /\ t_elapsed < (IF t_deadline = None THEN MaxRun ELSE t_deadline)
    /\ timing' = [timing EXCEPT !.t_elapsed = t_elapsed + 1]
    /\ UNCHANGED notTimeout

\* The operation returns.
OperationReturns ==
    /\ t_pc = "running"
    /\ timing' = [timing EXCEPT !.t_pc = "returned", !.t_out = Result]
    /\ UNCHANGED notTimeout

\* The operation raises e.
OperationRaises(e) ==
    /\ t_pc = "running"
    /\ timing' = [timing EXCEPT
          !.t_pc = "raised",
          !.t_raised = e,
          !.t_out = IF tpolicy.enabled /\ catches(e) THEN TimeoutException ELSE e]
    /\ UNCHANGED notTimeout

\* asyncio.wait_for gives up at the deadline and raises asyncio.TimeoutError.
DeadlineExpires ==
    /\ t_pc = "running"
    /\ t_deadline # None
    /\ t_elapsed = t_deadline
    /\ timing' = [timing EXCEPT !.t_pc = "raised", !.t_out = TimeoutException]
    /\ UNCHANGED notTimeout

InitTimeout ==
    /\ now = StartTime
    /\ BreakerIdle
    /\ CacheManager(CachingPolicy(TRUE, TRUE, 2))
    /\ BudgetIdle /\ RetryIdle /\ RouterIdle /\ MoreIdle
    /\ \E p \in [enabled : BOOLEAN,
                  per_provider_timeouts : ProviderTimeoutChoices,
                  per_endpoint_timeouts : EndpointTimeoutChoices] :
          timing = [tpolicy |-> p,
                    t_call |-> [provider_name |-> "", endpoint |-> ""],
                    t_pc |-> "idle", t_deadline |-> None, t_elapsed |-> 0,
                    t_raised |-> Nothing, t_out |-> Nothing]

NextTimeout ==
    \/ \E p \in TimeoutProviders, e \in TimeoutEndpoints : CallApplyTimeout(p, e)
    \/ OperationRuns
    \/ OperationReturns
    \/ \E e \in OwnErrors : OperationRaises(e)
    \/ DeadlineExpires

SpecTimeout == InitTimeout /\ [][NextTimeout]_vars

\* C17: under an enabled policy the deadline is the endpoint's override if it
\* has one, else the provider's override if it has one, else the default; a
\* call that ended without the operation returning or raising ended with
\* TimeoutException; and a call in which the operation raised an error of its
\* own did not end with TimeoutException.
C17_DeadlineAndDedicatedError ==
    /\ (tpolicy.enabled /\ t_pc # "idle") =>
          t_deadline =
             IF t_call.endpoint \in DOMAIN tpolicy.per_endpoint_timeouts
             THEN tpolicy.per_endpoint_timeouts[t_call.endpoint]
             ELSE IF t_call.provider_name \in DOMAIN tpolicy.per_provider_timeouts
             THEN tpolicy.per_provider_timeouts[t_call.provider_name]
             ELSE default_timeout_seconds
    /\ (tpolicy.enabled /\ t_pc = "raised" /\ t_raised = Nothing) =>
          (t_out = TimeoutException /\ t_elapsed = t_deadline)
    /\ t_raised # Nothing => t_out # TimeoutException

\* ----------------------------------------------------- select_provider
\* The providers a routing policy may list, in this order, each with the
\* fallback chain the policy gives it.
ProviderNames == <<"openai", "stable-diffusion", "cipher">>
FallbackTo == <<(<<"stable-diffusion", "cipher">>), (<<"cipher">>), (<< >>)>>
PriorityChoices == {1, 2}
CostTiers == {"low", "medium"}
QualityTiers == {"medium", "high"}
CostModes == {"cost_optimized", "quality_optimized", "balanced"}

\* requested_provider: absent, listed names in two spellings, and a name that
\* no policy lists.
RequestedProviders == {"", "openai", "OpenAI", "cipher", "runway"}

\* ProviderConfig for the i-th name
ProviderConfig(i, en, pr, ct, qt) ==
    [name |-> ProviderNames[i], enabled |-> en, priority |-> pr,
     cost_tier |-> ct, quality_tier |-> qt, fallback_to |-> FallbackTo[i]]

\* The provider lists of the first n names.
ProviderLists(n) ==
    { [i \in 1..n |-> ProviderConfig(i, c[i].enabled, c[i].priority,
                                     c[i].cost_tier, c[i].quality_tier)] :
        c \in [1..n -> [enabled : BOOLEAN, priority : PriorityChoices,
                        cost_tier : CostTiers, quality_tier : QualityTiers]] }

\* RoutingPolicy
RoutingPolicy(providers) == [default_provider |-> "openai", providers |-> providers]

\* The names compared as they are spelled
name_matches_exact(p_config, requested_provider) ==
    p_config.name = requested_provider

\* p_config.name.lower() == requested_provider.lower()
name_matches(p_config, requested_provider) ==
    lower(p_config.name) = lower(requested_provider)

\* The key that available_providers.sort is given; False sorts before True.
sort_key(p, cost_mode) ==
    IF cost_mode = "cost_optimized"
    THEN <<IF p.cost_tier = "low" THEN 1 ELSE 0, p.priority>>
    ELSE IF cost_mode = "quality_optimized"
    THEN <<IF p.quality_tier = "high" THEN 1 ELSE 0, p.priority>>
    ELSE <<0, p.priority>>

\* Tuple comparison k1 < k2
key_less(k1, k2) == k1[1] < k2[1] \/ (k1[1] = k2[1] /\ k1[2] < k2[2])

\* x put into a sorted list before the first element of equal or larger key
insert_before_equal(x, s, cost_mode) ==
    LET n == Cardinality({i \in 1..Len(s) :
                 key_less(sort_key(s[i], cost_mode), sort_key(x, cost_mode))})
    IN  SubSeq(s, 1, n) \o <<x>> \o SubSeq(s, n + 1, Len(s))

\* x put into a sorted list after the elements of smaller or equal key
insert_sorted(x, s, cost_mode) ==
    LET n == Cardinality({i \in 1..Len(s) :
                 ~key_less(sort_key(x, cost_mode), sort_key(s[i], cost_mode))})
    IN  SubSeq(s, 1, n) \o <<x>> \o SubSeq(s, n + 1, Len(s))

\* list.sort(key=...): stable, ascending
RECURSIVE sort(_, _)
sort(s, cost_mode) ==
    IF s = << >> THEN << >>
    ELSE insert_sorted(s[Len(s)], sort(SubSeq(s, 1, Len(s) - 1), cost_mode), cost_mode)

\* Every listed provider taken as available
is_enabled_always(p) == TRUE

\* p.enabled, the filter of available_providers
is_enabled(p) == p.enabled

\* select_provider: the pair (selected provider, fallback chain)
select_provider(requested_provider, cost_mode) ==
    LET providers == routing.providers
        explicit == {i \in 1..Len(providers) :
                       /\ name_matches(providers[i], requested_provider)
                       /\ providers[i].enabled}
        available_providers == SelectSeq(providers, is_enabled)
    IN  IF providers = << >>
        THEN [provider |-> routing.default_provider, fallback_chain |-> << >>]
        ELSE IF requested_provider # "" /\ explicit # {}
        THEN LET i == CHOOSE i \in explicit : \A j \in explicit : i <= j
             IN  [provider |-> providers[i].name,
                  fallback_chain |-> providers[i].fallback_to]
        ELSE IF available_providers = << >>
        THEN [provider |-> routing.default_provider, fallback_chain |-> << >>]
        ELSE LET selected == sort(available_providers, cost_mode)[1]
             IN  [provider |-> selected.name,
                  fallback_chain |-> selected.fallback_to]

CallSelectProvider(requested_provider, cost_mode) ==
    /\ router' = [router EXCEPT
          !.sel_call = [requested_provider |-> requested_provider,
                        cost_mode |-> cost_mode],
          !.sel_ret = select_provider(requested_provider, cost_mode)]
    /\ UNCHANGED notRouter

InitRouter ==
    /\ now = StartTime
    /\ BreakerIdle
    /\ CacheManager(CachingPolicy(TRUE, TRUE, 2))
    /\ BudgetIdle /\ RetryIdle /\ TimeoutIdle /\ MoreIdle
    /\ \E n \in 0..Len(ProviderNames) : \E providers \in ProviderLists(n) :
          router = [routing |-> RoutingPolicy(providers),
                    sel_call |-> [requested_provider |-> "", cost_mode |-> ""],
                    sel_ret |-> [provider |-> "", fallback_chain |-> << >>]]

NextRouter ==
    \E r \in RequestedProviders, m \in CostModes : CallSelectProvider(r, m)

SpecRouter == InitRouter /\ [][NextRouter]_vars

\* ------------------------------------------- select_provider properties
Called == sel_call.cost_mode # ""
Listed == 1..Len(routing.providers)
Enabled == {i \in Listed : routing.providers[i].enabled}
Chose(i) ==
    sel_ret = [provider |-> routing.providers[i].name,
               fallback_chain |-> routing.providers[i].fallback_to]

\* The request names a provider that the policy lists as enabled.
Requested ==
    {i \in Enabled : lower(routing.providers[i].name) = lower(sel_call.requested_provider)}

\* The call was left to ranking: no usable request, some provider enabled.
Ranked == Called /\ Requested = {} /\ Enabled # {}

\* The providers of a set with the smallest priority number in it.
Foremost(S) ==
    {i \in S : \A j \in S : routing.providers[i].priority <= routing.providers[j].priority}

\* C18: a requested provider that the policy lists as enabled is returned with
\* exactly its own fallback_to, whatever cost_mode is and whatever the other
\* providers are.
C18_ExplicitRequestHonoured ==
    Called => \A i \in Requested : Chose(i)

\* A request spelled in another case than the policy was honoured in
\* cost_optimized mode although an enabled provider with a smaller priority
\* number was listed.
C18_Witness ==
    /\ sel_call = [requested_provider |-> "OpenAI", cost_mode |-> "cost_optimized"]
    /\ \E i \in Requested :
          /\ Chose(i)
          /\ \E j \in Enabled :
                routing.providers[j].priority < routing.providers[i].priority

\* C19: left to ranking, cost_optimized mode returns an enabled provider of
\* cost_tier low whenever one is enabled, the smallest priority number among
\* them, and quality_optimized mode likewise for quality_tier high.
C19_PreferredTierChosen ==
    LET low == {i \in Enabled : routing.providers[i].cost_tier = "low"}
        high == {i \in Enabled : routing.providers[i].quality_tier = "high"}
    IN  /\ (Ranked /\ sel_call.cost_mode = "cost_optimized" /\ low # {}) =>
               \E i \in Foremost(low) : Chose(i)
        /\ (Ranked /\ sel_call.cost_mode = "quality_optimized" /\ high # {}) =>
               \E i \in Foremost(high) : Chose(i)

\* C20: left to ranking, balanced mode returns the enabled provider with the
\* smallest priority number, the first in the policy list among those that
\* share it; so no disabled provider is returned by ranking.
C20_BalancedByPriorityThenOrder ==
    (Ranked /\ sel_call.cost_mode = "balanced") =>
        \E i \in Foremost(Enabled) :
            /\ Chose(i)
            /\ \A j \in Foremost(Enabled) : i <= j

\* Balanced ranking has chosen the first of two enabled providers that share
\* the smallest priority number, past a disabled provider with a smaller one.
C20_Witness ==
    /\ Ranked /\ sel_call.cost_mode = "balanced"
    /\ \E i, j \in Foremost(Enabled) :
          /\ i < j
          /\ Chose(i)
          /\ \E k \in Listed \ Enabled :
                routing.providers[k].priority < routing.providers[i].priority

\* C21: with no enabled provider in the policy, the list empty or every entry
\* disabled, select_provider returns default_provider with an empty fallback
\* chain for every requested_provider and cost_mode.
C21_DefaultWhenNoneEnabled ==
    (Called /\ Enabled = {}) =>
        sel_ret = [provider |-> routing.default_provider, fallback_chain |-> << >>]

\* A request for a listed but disabled provider other than the default, in a
\* policy whose entries are all disabled, was answered with the default.
C21_Witness ==
    /\ Called /\ Listed # {} /\ Enabled = {}
    /\ \E i \in Listed :
          /\ lower(routing.providers[i].name) = lower(sel_call.requested_provider)
          /\ routing.providers[i].name # routing.default_provider
    /\ sel_ret = [provider |-> routing.default_provider, fallback_chain |-> << >>]

\* ------------------------------------------------ execute_with_fallback
\* The fallback chains handed in: every list of provider names up to MaxChain,
\* repeats and the chosen provider itself included.
MaxChain == 2
FallbackChains ==
    UNION {[1..n -> {ProviderNames[k] : k \in 1..Len(ProviderNames)}] : n \in 0..MaxChain}

\* What execution_function raises when a provider fails.
ExecutionErrors ==
    { [kind |-> "HTTPStatusError", words |-> {"503", "Service Unavailable"}],
      [kind |-> "Exception", words |-> {"Generation failed"}] }

\* What execution_function returns for a provider.
ResultOf(attempt_provider) == [kind |-> "result", words |-> {attempt_provider}]

f_call == fallback.f_call        \* history: the arguments provider and fallback_chain
attempts == fallback.attempts    \* the local attempts
f_pc == fallback.f_pc            \* where the call stands
tried == fallback.tried          \* history: the providers execution_function was given
errors == fallback.errors        \* history: the errors it raised, in order
f_out == fallback.f_out          \* what the caller received

\* The chain gone through twice
attempts_twice(provider, fallback_chain) ==
    <<provider>> \o fallback_chain \o fallback_chain

\* The chain tried before the chosen provider
attempts_chain_first(provider, fallback_chain) == fallback_chain \o <<provider>>

\* attempts = [provider] + fallback_chain
attempts_of(provider, fallback_chain) == <<provider>> \o fallback_chain

\* Every failure taken for the final one
is_last_always(i, atts) == TRUE

\* i == len(attempts) - 1, with i counted from 1 here
is_last(i, atts) == i = Len(atts)

\* execute_with_fallback is called and awaits execution_function on the first
\* of attempts.
CallExecuteWithFallback(provider, fallback_chain) ==
    LET atts == attempts_of(provider, fallback_chain)
    IN  /\ f_pc = "idle"
        /\ fallback' = [fallback EXCEPT
              !.f_call = [provider |-> provider, fallback_chain |-> fallback_chain],
              !.attempts = atts,
              !.i = 1,
              !.f_pc = "awaiting",
              !.tried = <<atts[1]>>]
        /\ UNCHANGED notFallback

\* execution_function returns: the result goes to the caller.
ExecutionSucceeds ==
    /\ f_pc = "awaiting"
    /\ fallback' = [fallback EXCEPT
          !.f_pc = "returned",
          !.f_out = ResultOf(attempts[fallback.i])]
    /\ UNCHANGED notFallback

\* execution_function raises e: the last attempt re-raises it, any other goes
\* on to the next of attempts.
ExecutionFails(e) ==
    /\ f_pc = "awaiting"
    /\ fallback' =
          IF is_last(fallback.i, attempts)
          THEN [fallback EXCEPT !.errors = Append(errors, e),
                                !.f_pc = "raised",
                                !.f_out = e]
          ELSE [fallback EXCEPT !.errors = Append(errors, e),
                                !.i = fallback.i + 1,
                                !.tried = Append(tried, attempts[fallback.i + 1])]
    /\ UNCHANGED notFallback

InitFallback ==
    /\ now = StartTime
    /\ LastIdle
    /\ BreakerIdle
    /\ CacheManager(CachingPolicy(TRUE, TRUE, 2))
    /\ BudgetIdle /\ RetryIdle /\ TimeoutIdle /\ RouterIdle
    /\ LoaderIdle /\ ImageIdle /\ SanitizingIdle
    /\ fallback = NoFallback

NextFallback ==
    \/ \E k \in 1..Len(ProviderNames), c \in FallbackChains :
          CallExecuteWithFallback(ProviderNames[k], c)
    \/ ExecutionSucceeds
    \/ \E e \in ExecutionErrors : ExecutionFails(e)

SpecFallback == InitFallback /\ [][NextFallback]_vars

\* Every call of execution_function returns or raises.
ExecutionEnds == ExecutionSucceeds \/ \E e \in ExecutionErrors : ExecutionFails(e)
SpecFallbackFair == SpecFallback /\ WF_vars(ExecutionEnds)

\* --------------------------------------- execute_with_fallback properties
\* [chosen] + fallback_chain of the call
Planned == <<f_call.provider>> \o f_call.fallback_chain

\* C22: the providers attempted are always the first ones of [chosen] +
\* fallback_chain in list order, each attempted after the one before it has
\* failed; a call that returned gives the result of the last provider
\* attempted, the first that did not fail, and has attempted none after it.
C22_InOrderUntilFirstSuccess ==
    f_pc # "idle" =>
        /\ Len(tried) <= Len(Planned)
        /\ tried = SubSeq(Planned, 1, Len(tried))
        /\ f_pc = "awaiting" => Len(errors) = Len(tried) - 1
        /\ f_pc = "returned" =>
              /\ Len(errors) = Len(tried) - 1
              /\ f_out = ResultOf(Planned[Len(tried)])

\* A primary that failed once and another provider as the only fallback: the
\* fallback's result came back and the primary was attempted once.
C22_Witness ==
    /\ f_pc = "returned"
    /\ Len(f_call.fallback_chain) = 1
    /\ f_call.fallback_chain[1] # f_call.provider
    /\ tried = <<f_call.provider, f_call.fallback_chain[1]>>
    /\ Len(errors) = 1
    /\ f_out = ResultOf(f_call.fallback_chain[1])

\* C23: a call in which every attempt failed has attempted each element of
\* [chosen] + fallback_chain once, in order, and raised the error of the final
\* attempt; and a call raises only then.
C23_LastErrorPropagates ==
    /\ f_pc = "raised" =>
          /\ tried = Planned
          /\ Len(errors) = Len(Planned)
          /\ f_out = errors[Len(errors)]
    /\ (f_pc # "idle" /\ Len(errors) = Len(Planned)) => f_pc = "raised"

\* Three attempts failed, the last with another error than the first, and the
\* caller received the last.
C23_Witness ==
    /\ f_pc = "raised"
    /\ Len(errors) = 3
    /\ errors[1] # errors[3]
    /\ f_out = errors[3]

\* C39: whatever the chosen provider and the chain, one that holds the chosen
\* provider or the same provider twice included, the operation is invoked at
\* most 1 + len(fallback_chain) times, and a call under way always comes to
\* return or to raise.
C39_AlwaysTerminates ==
    /\ [](Len(tried) <= 1 + Len(f_call.fallback_chain))
    /\ (f_pc = "awaiting") ~> (f_pc \in {"returned", "raised"})

\* The chain was the chosen provider twice over; it was invoked three times
\* and the call raised.
C39_Witness ==
    /\ f_pc = "raised"
    /\ f_call.fallback_chain = <<f_call.provider, f_call.provider>>
    /\ tried = <<f_call.provider, f_call.provider, f_call.provider>>

\* ------------------------------------------------- RoutingPolicyLoader
\* (CachingPolicyLoader has the same _load_policy, get_policy and reload)
\* The policy file: absent, unparsable, or valid in one of two versions.
Sources == {"missing", "malformed", "v1", "v2"}
ValidSources == {"v1", "v2"}

\* self._policy holds None or a policy; a policy is named by what it was
\* built from: "default" is RoutingPolicy(), "v1" and "v2" are loaded files.
NoPolicy == "None"
DefaultPolicy == "default"

\* The threads of the pool that run the reload endpoint.
NumReloaders == 2
Reloaders == 1..NumReloaders

source == loader.source              \* the policy file
_policy == loader._policy            \* self._policy
g_pc == loader.g_pc                  \* where the thread in get_policy stands
g_read == loader.g_read              \* what its _load_policy read
g_out == loader.g_out                \* what get_policy returned
rl_pc == loader.rl_pc                \* where each thread in reload stands
rl_read == loader.rl_read            \* what its _load_policy read
stored == loader.stored              \* history: the last policy stored
snapshots == loader.snapshots        \* history: the policy stored when get_policy
                                     \* was called and those loaded during it

\* What _load_policy stores for a file: the default policy for an absent or
\* unparsable one, the parsed policy otherwise.
policy_from(s) == IF s \in ValidSources THEN s ELSE DefaultPolicy

\* Every step that stores a policy is seen by a get_policy under way.
Stores(l, p) ==
    [l EXCEPT !._policy = p,
              !.stored = p,
              !.snapshots = IF l.g_pc \in {"idle", "returned"} THEN @ ELSE @ \cup {p}]

\* get_policy: the test self._policy is None.
GetPolicyTest ==
    /\ g_pc = "idle"
    /\ loader' = [loader EXCEPT
          !.g_pc = IF _policy = NoPolicy THEN "load" ELSE "cond",
          !.snapshots = {stored}]
    /\ UNCHANGED notLoader

\* get_policy: its _load_policy reads the file.
GetPolicyReads ==
    /\ g_pc = "load"
    /\ loader' = [loader EXCEPT !.g_pc = "loaded", !.g_read = source]
    /\ UNCHANGED notLoader

\* get_policy: its _load_policy stores the policy.
GetPolicyStores ==
    /\ g_pc = "loaded"
    /\ loader' = [Stores(loader, policy_from(g_read)) EXCEPT !.g_pc = "cond", !.g_read = ""]
    /\ UNCHANGED notLoader

\* get_policy: the condition of  self._policy if self._policy else RoutingPolicy().
GetPolicyCond ==
    /\ g_pc = "cond"
    /\ loader' = IF _policy = NoPolicy
                 THEN [loader EXCEPT !.g_pc = "returned", !.g_out = DefaultPolicy]
                 ELSE [loader EXCEPT !.g_pc = "value"]
    /\ UNCHANGED notLoader

\* get_policy: the value self._policy of that expression is read and returned.
GetPolicyReturns ==
    /\ g_pc = "value"
    /\ loader' = [loader EXCEPT !.g_pc = "returned", !.g_out = _policy]
    /\ UNCHANGED notLoader

\* The caller has its policy; another get_policy may be called.
GetPolicyDone ==
    /\ g_pc = "returned"
    /\ loader' = [loader EXCEPT !.g_pc = "idle", !.g_out = NoPolicy, !.snapshots = {}]
    /\ UNCHANGED notLoader

\* reload: self._policy = None.
ReloadClears(t) ==
    /\ rl_pc[t] = "idle"
    /\ loader' = [loader EXCEPT !._policy = NoPolicy, !.rl_pc[t] = "cleared"]
    /\ UNCHANGED notLoader

\* reload: its _load_policy reads the file.
ReloadReads(t) ==
    /\ rl_pc[t] = "cleared"
    /\ loader' = [loader EXCEPT !.rl_pc[t] = "loaded", !.rl_read[t] = source]
    /\ UNCHANGED notLoader

\* reload: its _load_policy stores the policy.
ReloadStores(t) ==
    /\ rl_pc[t] = "loaded"
    /\ loader' = [Stores(loader, policy_from(rl_read[t])) EXCEPT !.rl_pc[t] = "idle", !.rl_read[t] = ""]
    /\ UNCHANGED notLoader

\* The policy file is replaced, removed or damaged.
EditSource(s) ==
    /\ s # source
    /\ loader' = [loader EXCEPT !.source = s]
    /\ UNCHANGED notLoader

\* RoutingPolicyLoader(): __init__ has loaded the file.
RoutingPolicyLoader(s) ==
    loader = [source |-> s, _policy |-> policy_from(s),
              g_pc |-> "idle", g_read |-> "", g_out |-> NoPolicy,
              rl_pc |-> [t \in Reloaders |-> "idle"],
              rl_read |-> [t \in Reloaders |-> ""],
              stored |-> policy_from(s), snapshots |-> {}]

InitLoader ==
    /\ now = StartTime
    /\ LastIdle
    /\ BreakerIdle
    /\ CacheManager(CachingPolicy(TRUE, TRUE, 2))
    /\ BudgetIdle /\ RetryIdle /\ TimeoutIdle /\ RouterIdle
    /\ FallbackIdle /\ ImageIdle /\ SanitizingIdle
    /\ \E s \in Sources : RoutingPolicyLoader(s)

NextLoader ==
    \/ GetPolicyTest
    \/ GetPolicyReads
    \/ GetPolicyStores
    \/ GetPolicyCond
    \/ GetPolicyReturns
    \/ GetPolicyDone
    \/ \E t \in Reloaders : ReloadClears(t)
    \/ \E t \in Reloaders : ReloadReads(t)
    \/ \E t \in Reloaders : ReloadStores(t)
    \/ \E s \in Sources : EditSource(s)

SpecLoader == InitLoader /\ [][NextLoader]_vars

\* --------------------------------------------- RoutingPolicyLoader properties
\* C26: get_policy never returns None, whatever reload does meanwhile and
\* whatever the file holds.
C26_NeverNull == g_pc = "returned" => g_out # NoPolicy

\* C27: a policy that get_policy returns is the one that was stored when it
\* was called or one that was loaded while it ran; with a valid file all
\* along it is never the default policy.
C27_OldOrNewSnapshot ==
    (g_pc = "returned" /\ g_out # NoPolicy) => g_out \in snapshots

\* -------------------------------------------------------- generate_images
\* A prompt is known by the phrases it holds.
\* ContentFilterConfig.blocked_patterns
blocked_patterns == {"<script", "javascript:", "onerror=", "onload="}
\* PromptInjectionConfig.suspicious_patterns and threshold (in tenths)
suspicious_patterns ==
    {"ignore previous instructions", "forget everything", "system:", "assistant:",
     "you are now"}
injection_threshold == 7
\* check_toxicity's toxic_keywords and ToxicityConfig.threshold (in tenths)
toxic_keywords ==
    {"hate", "violence", "harassment", "abuse", "discrimination", "offensive",
     "inappropriate"}
toxicity_threshold == 7
\* What the patterns of detect_and_mask_pii match, and mask_pattern
PiiPhrases == {"dev@example.com", "555-123-4567"}
mask_pattern == "***REDACTED***"
\* What the pattern <[^>]+> of sanitize_response matches
TagPhrases == {"<b>", "</b>"}
\* An address with a tag inside: no pattern of detect_and_mask_pii matches it,
\* and with the tag taken out it is the address.
SplitPhrase == "dev@exa<b>mple.com"

\* The prompts sent: a plain one, one with an address, one with markup, one
\* with an address split by markup, and one for each screen to reject.
Plain == {"architecture", "diagram"}
Prompts ==
    { Plain,
      Plain \cup {"dev@example.com"},
      Plain \cup {"<b>"},
      Plain \cup {SplitPhrase},
      Plain \cup {"<script"},
      {"ignore previous instructions", "forget everything", "system:", "you are now"},
      Plain \cup {"hate", "violence", "harassment", "abuse", "offensive"},
      Plain \cup {"hate"} }

\* A content filter that lets every prompt through
check_content_filter_off(text) == [allowed |-> TRUE, error |-> ""]

\* check_content_filter
check_content_filter(text) ==
    IF text \cap blocked_patterns # {}
    THEN [allowed |-> FALSE, error |-> "Content contains blocked pattern"]
    ELSE [allowed |-> TRUE, error |-> ""]

\* detect_prompt_injection: risk_score >= threshold
detect_prompt_injection(text) ==
    IF Cardinality(text \cap suspicious_patterns) * 10
          >= injection_threshold * Cardinality(suspicious_patterns)
    THEN [safe |-> FALSE, warning |-> "Potential prompt injection detected"]
    ELSE [safe |-> TRUE, warning |-> ""]

\* detect_and_mask_pii
detect_and_mask_pii(text) ==
    IF text \cap PiiPhrases # {}
    THEN [masked_text |-> (text \ PiiPhrases) \cup {mask_pattern}, pii_detected |-> TRUE]
    ELSE [masked_text |-> text, pii_detected |-> FALSE]

\* ToxicityConfig as QualityPolicy declares it
ToxicityConfig ==
    [enabled |-> TRUE, threshold |-> toxicity_threshold, block_on_toxicity |-> TRUE]

\* keyword in text_lower: the keyword is found inside a phrase of the text,
\* whatever the case of its letters.
keyword_in(keyword, text) ==
    \E w \in text : \/ w = keyword
                    \/ w = "HATE" /\ keyword = "hate"
                    \/ w = "chateau" /\ keyword = "hate"

\* toxic_count
toxic_count(text) == Cardinality({keyword \in toxic_keywords : keyword_in(keyword, text)})

\* A check_toxicity that blocks whatever block_on_toxicity says
check_toxicity_blocking(p, text) ==
    IF ~p.enabled
    THEN [is_safe |-> TRUE, warning |-> "", toxicity_score |-> 0]
    ELSE IF toxic_count(text) * 10 >= p.threshold * Cardinality(toxic_keywords)
    THEN [is_safe |-> FALSE, warning |-> "Potential toxicity detected",
          toxicity_score |-> toxic_count(text)]
    ELSE [is_safe |-> TRUE, warning |-> "", toxicity_score |-> toxic_count(text)]

\* check_toxicity under policy.toxicity = p; the threshold is in tenths, the
\* score in sevenths, and "" stands for no warning.
check_toxicity(p, text) ==
    IF ~p.enabled
    THEN [is_safe |-> TRUE, warning |-> "", toxicity_score |-> 0]
    ELSE IF toxic_count(text) * 10 >= p.threshold * Cardinality(toxic_keywords)
    THEN IF p.block_on_toxicity
         THEN [is_safe |-> FALSE, warning |-> "Potential toxicity detected",
               toxicity_score |-> toxic_count(text)]
         ELSE [is_safe |-> TRUE, warning |-> "Potential toxicity detected",
               toxicity_score |-> toxic_count(text)]
    ELSE [is_safe |-> TRUE, warning |-> "", toxicity_score |-> toxic_count(text)]

\* sanitize_response on a text: what the tag pattern matches is removed, from
\* inside a phrase too.
sanitize_text(text) ==
    ((text \ TagPhrases) \ {SplitPhrase})
        \cup (IF SplitPhrase \in text THEN {"dev@example.com"} ELSE {})

\* The prompts as masked, in a fixed order, and the
\* fingerprint image:{provider}:{prompt}:{style}:{size} as a number.
MaskedPrompts == {detect_and_mask_pii(text).masked_text : text \in Prompts}
RECURSIVE SeqOf(_)
SeqOf(S) == IF S = {} THEN << >>
            ELSE LET x == CHOOSE y \in S : TRUE IN <<x>> \o SeqOf(S \ {x})
PromptOrder == SeqOf(MaskedPrompts)
IndexIn(s, x) == CHOOSE k \in 1..Len(s) : s[k] = x
cache_key(provider, prompt) ==
    (IndexIn(ProviderNames, provider) - 1) * Len(PromptOrder) + IndexIn(PromptOrder, prompt)

\* What a provider returns: one image, or an empty list.
OneImage == <<[url |-> "https://img/1", b64_json |-> ""]>>
ProviderResults == {OneImage, << >>}

\* The requests served one after the other.
MaxServed == 2
\* The hours that may go by while they are served.
MaxWait == 1

im_pc == image.im_pc                \* where generate_images stands
im_req == image.im_req              \* req: provider and prompt (masked once past the PII step)
im_key == image.im_key              \* cache_key
im_selected == image.im_selected    \* selected_provider
im_cost == image.im_cost            \* estimated_cost
im_attempts == image.im_attempts    \* attempts of execute_with_fallback
im_i == image.im_i                  \* its loop index
im_status == image.im_status        \* status code of the answer
im_detail == image.im_detail        \* detail of an error answer
im_response == image.im_response    \* body of a 200 answer
im_invoked == image.im_invoked      \* history: the providers invoked for the request
im_failed == image.im_failed        \* history: how many of them raised
im_sent == image.im_sent            \* history: the request as it was sent
im_steps == image.im_steps          \* history: what the request did, in order
im_before == image.im_before        \* history: the tracker, the hour and the
                                    \* cached keys when the request arrived
served == image.served              \* requests answered so far

NoResponse == [data |-> << >>, provider |-> "", prompt |-> {}]

\* estimate_and_check_cost that records the estimate as spent
estimate_and_check_cost_charging(provider, tr, t) ==
    LET estimated_cost == estimate_request_cost(provider)
        res == check_budget(tr, estimated_cost, t)
    IN  [estimated_cost |-> estimated_cost, ret |-> res.ret,
         tr |-> record_spend(res.tr, estimated_cost, t)]

\* estimate_and_check_cost, with the tracker that check_budget leaves
estimate_and_check_cost(provider, tr, t) ==
    LET estimated_cost == estimate_request_cost(provider)
        res == check_budget(tr, estimated_cost, t)
    IN  [estimated_cost |-> estimated_cost, ret |-> res.ret, tr |-> res.tr]

\* str(e) of the HTTPException raised inside the try block
http_exception_str(status_code, detail) == <<status_code, detail>>

\* validate_output_format on response.dict(): the required fields are there.
validate_output_format(response) ==
    {"data", "provider"} \subseteq DOMAIN response

\* check_quality for /v1/images/generate
check_quality(response) ==
    IF Len(response.data) = 0
    THEN [valid |-> FALSE, error |-> "No images generated"]
    ELSE IF \E k \in 1..Len(response.data) :
               response.data[k].url = "" /\ response.data[k].b64_json = ""
    THEN [valid |-> FALSE, error |-> "Image data missing URL or base64 content"]
    ELSE [valid |-> TRUE, error |-> ""]

\* sanitize_response on response.dict()
sanitize_image_response(response) ==
    [response EXCEPT !.prompt = sanitize_text(@)]

\* The answer goes out; nothing else changes in the request.
Answer(status_code, detail, response, steps) ==
    [image EXCEPT !.im_pc = "answered", !.im_status = status_code,
                  !.im_detail = detail, !.im_response = response,
                  !.im_steps = steps]

\* generate_images from the arrival of the request to the first await: the
\* screens, the cache lookup, select_provider, estimate_and_check_cost and the
\* call of the first provider.
GenerateImages(provider, prompt) ==
    LET content == check_content_filter(prompt)
        injection == detect_prompt_injection(prompt)
        pii == detect_and_mask_pii(prompt)
        toxicity == check_toxicity(ToxicityConfig, pii.masked_text)
        key == cache_key(provider, pii.masked_text)
        cached_response == get(cache, order, key, now).ret
        sel == select_provider(provider, "balanced")
        est == estimate_and_check_cost(sel.provider, tracker, utc)
        atts == attempts_of(sel.provider, sel.fallback_chain)
        arrived == [image EXCEPT
                       !.im_req = [provider |-> provider, prompt |-> prompt],
                       !.im_sent = [provider |-> provider, prompt |-> prompt],
                       !.im_before = [tracker |-> tracker, utc |-> utc,
                                      keys |-> DOMAIN cache],
                       !.im_invoked = << >>, !.im_failed = 0]
        masked == [arrived EXCEPT !.im_req.prompt = pii.masked_text, !.im_key = key]
        Rejects(detail, steps) ==
            /\ image' = [arrived EXCEPT !.im_pc = "answered", !.im_status = 400,
                                        !.im_detail = <<detail>>, !.im_steps = steps]
            /\ UNCHANGED <<cache, order, cache_call, cache_ret, used, evicted, promoted,
                           budget>>
    IN
    /\ im_pc = "idle"
    /\ served < MaxServed
    /\ IF ~content.allowed THEN Rejects(content.error, <<"content_filter">>)
       ELSE IF ~injection.safe
       THEN Rejects(injection.warning, <<"content_filter", "prompt_injection">>)
       ELSE IF ~toxicity.is_safe
       THEN /\ image' = [masked EXCEPT
                   !.im_pc = "answered", !.im_status = 400,
                   !.im_detail = <<toxicity.warning>>,
                   !.im_steps = <<"content_filter", "prompt_injection", "pii", "toxicity">>]
            /\ UNCHANGED <<cache, order, cache_call, cache_ret, used, evicted, promoted,
                           budget>>
       ELSE /\ DoGet(key)
            /\ IF cached_response # Absent
               THEN /\ image' = [masked EXCEPT
                           !.im_pc = "answered", !.im_status = 200,
                           !.im_response = cached_response.response,
                           !.im_steps = <<"content_filter", "prompt_injection", "pii",
                                          "toxicity", "cache_get">>]
                    /\ UNCHANGED budget
               ELSE /\ budget' = [budget EXCEPT
                           !.tracker = est.tr,
                           !.b_ret = est.ret,
                           !.b_call = [op |-> "check_budget", amount |-> est.estimated_cost],
                           !.crossed = (crossed /\ ~bpolicy.enabled)]
                    /\ image' =
                          IF ~est.ret.allowed
                          THEN [masked EXCEPT
                                  !.im_pc = "answered",
                                  !.im_selected = sel.provider,
                                  !.im_cost = est.estimated_cost,
                                  !.im_status = 500,
                                  !.im_detail = http_exception_str(429, est.ret.reason),
                                  !.im_steps = <<"content_filter", "prompt_injection",
                                                 "pii", "toxicity", "cache_get",
                                                 "select_provider", "check_budget">>]
                          ELSE [masked EXCEPT
                                  !.im_pc = "awaiting",
                                  !.im_selected = sel.provider,
                                  !.im_cost = est.estimated_cost,
                                  !.im_attempts = atts,
                                  !.im_i = 1,
                                  !.im_invoked = <<atts[1]>>,
                                  !.im_steps = <<"content_filter", "prompt_injection",
                                                 "pii", "toxicity", "cache_get",
                                                 "select_provider", "check_budget",
                                                 "provider">>]
    /\ UNCHANGED <<now, policy, bpolicy>>
    /\ UNCHANGED <<cbVars, retrying, timing, router, fallback, loader, sanitizing,
                   lastVars>>

\* The provider awaited returns results: the spend is recorded, the response
\* is built, validated, checked, sanitized, cached and answered.
ProviderReturns(results) ==
    LET response == [data |-> results, provider |-> im_selected, prompt |-> im_req.prompt]
        quality == check_quality(response)
        sanitized_response == sanitize_image_response(response)
        value == [id |-> im_key, bytes |-> SmallBytes, response |-> sanitized_response]
    IN
    /\ im_pc = "awaiting"
    /\ budget' = [budget EXCEPT
          !.tracker = record_spend(tracker, im_cost, utc),
          !.b_call = [op |-> "record_spend", amount |-> im_cost],
          !.crossed = (crossed /\ ~bpolicy.enabled)]
    /\ IF ~validate_output_format(response)
       THEN /\ image' = Answer(500, http_exception_str(500, "Missing required field"),
                               NoResponse, Append(im_steps, "record_spend"))
            /\ UNCHANGED <<cache, order, cache_call, cache_ret, used, evicted, promoted>>
       ELSE IF ~quality.valid
       THEN /\ image' = Answer(500, http_exception_str(500, quality.error),
                               NoResponse, Append(im_steps, "record_spend"))
            /\ UNCHANGED <<cache, order, cache_call, cache_ret, used, evicted, promoted>>
       ELSE /\ image' = Answer(200, << >>, sanitized_response,
                               im_steps \o <<"record_spend", "cache_set">>)
            /\ DoSet(im_key, value, ImagesEndpoint)
            /\ UNCHANGED cache_ret
    /\ UNCHANGED <<now, policy, bpolicy>>
    /\ UNCHANGED <<cbVars, retrying, timing, router, fallback, loader, sanitizing,
                   lastVars>>

\* The provider awaited raises e: execute_with_fallback goes on to the next of
\* attempts, or re-raises after the last and the endpoint answers 500.
ProviderRaises(e) ==
    /\ im_pc = "awaiting"
    /\ image' =
          IF is_last(im_i, im_attempts)
          THEN [image EXCEPT !.im_pc = "answered", !.im_status = 500,
                             !.im_detail = <<e.kind>>,
                             !.im_failed = im_failed + 1]
          ELSE [image EXCEPT !.im_i = im_i + 1,
                             !.im_failed = im_failed + 1,
                             !.im_invoked = Append(im_invoked, im_attempts[im_i + 1]),
                             !.im_steps = Append(im_steps, "provider")]
    /\ UNCHANGED <<now, cbVars, cacheVars, budgetVars, retrying, timing, router,
                   fallback, loader, sanitizing, lastVars>>

\* The answer has been sent; the next request may arrive.
RequestDone ==
    /\ im_pc = "answered"
    /\ image' = [NoImage EXCEPT !.served = served + 1]
    /\ UNCHANGED <<now, cbVars, cacheVars, budgetVars, retrying, timing, router,
                   fallback, loader, sanitizing, lastVars>>

\* An hour goes by.
HourPasses ==
    /\ utc < HoursPerDay - 1 + MaxWait
    /\ TickBudget

\* The routing policies the service runs under: none configured (routing.yaml
\* absent), and the three providers listed with their fallback chains.
ImageRoutingPolicies ==
    { RoutingPolicy(<< >>),
      RoutingPolicy([i \in 1..Len(ProviderNames) |->
                        ProviderConfig(i, TRUE, 1, "medium", "medium")]),
      RoutingPolicy([i \in 1..Len(ProviderNames) |->
                        ProviderConfig(i, i # 2, 1, "medium", "medium")]) }

\* The service has started an hour before the daily reset, with the budget
\* policy enabled or not, and serves nothing.
InitImage ==
    /\ now = StartTime
    /\ LastIdle
    /\ BreakerIdle
    /\ CacheManager(CachingPolicy(TRUE, TRUE, 2))
    /\ RetryIdle /\ TimeoutIdle /\ FallbackIdle /\ LoaderIdle /\ SanitizingIdle
    /\ bpolicy \in [enabled : BOOLEAN, reset_hour_utc : {0}]
    /\ budget = [utc |-> HoursPerDay - 1,
                 tracker |-> BudgetTracker(HoursPerDay - 1),
                 b_call |-> [op |-> "init", amount |-> 0],
                 b_ret |-> Allowed,
                 crossed |-> FALSE,
                 reqs |-> << >>]
    /\ \E r \in ImageRoutingPolicies :
          router = [routing |-> r,
                    sel_call |-> [requested_provider |-> "", cost_mode |-> ""],
                    sel_ret |-> [provider |-> "", fallback_chain |-> << >>]]
    /\ image = NoImage

NextImage ==
    \/ \E k \in 1..Len(ProviderNames), prompt \in Prompts :
          GenerateImages(ProviderNames[k], prompt)
    \/ \E results \in ProviderResults : ProviderReturns(results)
    \/ \E e \in ExecutionErrors : ProviderRaises(e)
    \/ RequestDone
    \/ HourPasses

SpecImage == InitImage /\ [][NextImage]_vars

\* ------------------------------------------------ generate_images properties
\* A prompt that one of the screens rejects: a blocked pattern, suspicious
\* phrases up to the threshold, or toxic words up to the threshold.
Rejectable(text) ==
    \/ text \cap blocked_patterns # {}
    \/ Cardinality(text \cap suspicious_patterns) * 10
          >= injection_threshold * Cardinality(suspicious_patterns)
    \/ Cardinality(text \cap toxic_keywords) * 10
          >= toxicity_threshold * Cardinality(toxic_keywords)

\* The request that arrives in this step.
Arrives == im_pc = "idle" /\ im_pc' # "idle"

\* C24: a request whose prompt a screen rejects is answered 400 in the step it
\* arrives in, with no provider invoked, no cache lookup and no budget check:
\* the cache manager and the budget tracker are left as they were.
C24_ScreenRejectsBeforeAll ==
    [][ (Arrives /\ Rejectable(im_sent'.prompt)) =>
           /\ im_pc' = "answered"
           /\ im_status' = 400
           /\ im_invoked' = << >>
           /\ "cache_get" \notin {im_steps'[k] : k \in 1..Len(im_steps')}
           /\ UNCHANGED <<cache, order, cache_call, cache_ret, used, evicted, promoted>>
           /\ UNCHANGED budget ]_vars

\* A prompt with a blocked pattern was answered 400 while a response was
\* cached and a spend recorded, and no provider was invoked for it.
C24_Witness ==
    /\ im_pc = "answered" /\ im_status = 400
    /\ im_sent.prompt \cap blocked_patterns # {}
    /\ DOMAIN cache # {}
    /\ tracker.daily_spent > 0
    /\ im_invoked = << >>

\* The request was denied by check_budget.
BudgetDenied ==
    /\ im_pc = "answered"
    /\ Len(im_steps) > 0 /\ im_steps[Len(im_steps)] = "check_budget"
    /\ ~b_ret.allowed

\* C25: a request denied by check_budget is answered with a 4xx status that
\* carries the reason of the denial, and no provider is invoked for it.
C25_DenialIsClientError ==
    BudgetDenied =>
        /\ im_status \in 400..499
        /\ b_ret.reason \in {im_detail[k] : k \in 1..Len(im_detail)}
        /\ im_invoked = << >>

\* C28: a 200 answer names the provider that the request named.
C28_ResponseNamesRequestedProvider ==
    (im_pc = "answered" /\ im_status = 200) => im_response.provider = im_sent.provider

\* Every provider attempted for the request has raised.
AllAttemptsFailed ==
    /\ im_pc = "answered"
    /\ Len(im_attempts) > 0
    /\ im_failed = Len(im_attempts)

\* C29 as stated: when every attempt has failed the answer is 500, daily_spent
\* and monthly_spent are what they were when the request arrived, and nothing
\* has been stored under the request's key.
C29_FailureLeavesSpentUnchanged ==
    AllAttemptsFailed =>
        /\ im_status = 500
        /\ tracker.daily_spent = im_before.tracker.daily_spent
        /\ tracker.monthly_spent = im_before.tracker.monthly_spent
        /\ DOMAIN cache = im_before.keys

\* C29 amended: when every attempt has failed the answer is 500, no spend has
\* been added (the tracker is what the resets due at the budget check made
\* of it, and untouched under a disabled budget policy) and nothing has been
\* stored under the request's key.
C29_FailureRecordsNoSpend ==
    AllAttemptsFailed =>
        /\ im_status = 500
        /\ Len(im_invoked) = Len(im_attempts)
        /\ tracker = IF bpolicy.enabled
                     THEN _ensure_resets(im_before.tracker, im_before.utc)
                     ELSE im_before.tracker
        /\ DOMAIN cache = im_before.keys
        /\ im_key \notin DOMAIN cache \ im_before.keys

\* Two providers were attempted and both failed, after a spend of an earlier
\* request and a daily reset at this request's check.
C29_Witness ==
    /\ AllAttemptsFailed
    /\ Len(im_attempts) = 2
    /\ im_status = 500
    /\ im_before.tracker.daily_spent > 0
    /\ tracker.daily_spent = 0

\* The prompt of the request as detect_and_mask_pii leaves it.
MaskedSent == detect_and_mask_pii(im_sent.prompt).masked_text

\* C31: the PII step comes before the toxicity check, the cache lookup and the
\* provider call; the prompt handed to every provider attempt, the prompt in
\* the cache key and the prompt of a 200 response are the masked text, with
\* nothing in them that the PII patterns match; and no request is rejected at
\* the PII step.
C31_OnlyMaskedPromptUsed ==
    /\ \A k \in 1..Len(im_steps) :
          im_steps[k] \in {"toxicity", "cache_get", "provider"} =>
              \E j \in 1..(k - 1) : im_steps[j] = "pii"
    /\ im_pc = "awaiting" =>
          /\ im_req.prompt = MaskedSent
          /\ im_key = cache_key(im_sent.provider, MaskedSent)
    /\ (im_pc = "answered" /\ im_status = 200) =>
          /\ im_response.prompt = MaskedSent
          /\ im_response.prompt \cap PiiPhrases = {}
    /\ (im_pc = "answered" /\ Len(im_steps) > 0) => im_steps[Len(im_steps)] # "pii"

\* C38: a request answered with an error, whatever the stage it failed at,
\* leaves daily_spent and monthly_spent as they were when it arrived and
\* stores nothing in the cache.
C38_ErrorLeavesNoTrace ==
    (im_pc = "answered" /\ im_status # 200) =>
        /\ tracker.daily_spent = im_before.tracker.daily_spent
        /\ tracker.monthly_spent = im_before.tracker.monthly_spent
        /\ DOMAIN cache = im_before.keys

\* ------------------------------------------------------ sanitize_response
\* A string is a sequence of tokens: the characters "<", ">", "/", a letter
\* "x", and the word "script" of six characters.
Tokens == {"<", ">", "/", "x", "script"}
token_len(t) == IF t = "script" THEN 6 ELSE 1
RECURSIVE len(_)
len(s) == IF s = << >> THEN 0 ELSE token_len(Head(s)) + len(Tail(s))

\* The strings handed in: up to MaxPieces pieces one after the other.
MaxPieces == 5
Pieces == { <<"x">>, <<"<">>, <<">">>,
            <<"<", "script", ">">>, <<"<", "/", "script", ">">>,
            <<"script", ">">> }
RECURSIVE Concat(_)
Concat(ps) == IF ps = << >> THEN << >> ELSE Head(ps) \o Concat(Tail(ps))
Strings(n) == {Concat(ps) : ps \in UNION {[1..k -> Pieces] : k \in 0..n}}

\* SanitizationConfig: enabled, remove_html_tags, remove_script_tags and
\* max_length (0 stands for no limit).
MaxLengthChoices == {0, 7}
SanitizationConfigs ==
    [enabled : BOOLEAN, remove_html_tags : BOOLEAN, remove_script_tags : BOOLEAN,
     max_length : MaxLengthChoices]

\* The least position q >= from with s[q] = t, or 0.
Find(s, t, from) ==
    IF \E q \in from..Len(s) : s[q] = t
    THEN CHOOSE q \in from..Len(s) : s[q] = t /\ \A r \in from..(q - 1) : s[r] # t
    ELSE 0

\* Where a match of <[^>]+> that starts at the head of s ends, or 0.
html_tag_end(s) ==
    IF Len(s) >= 3 /\ s[1] = "<" /\ s[2] # ">" THEN Find(s, ">", 3) ELSE 0

\* re.sub(r'<[^>]+>', '', s)
RECURSIVE sub_html_tags(_)
sub_html_tags(s) ==
    IF s = << >> THEN << >>
    ELSE IF html_tag_end(s) > 0
    THEN sub_html_tags(SubSeq(s, html_tag_end(s) + 1, Len(s)))
    ELSE <<Head(s)>> \o sub_html_tags(Tail(s))

\* The least position r >= from where </script> starts in s, or 0.
FindClose(s, from) ==
    LET starts == {r \in from..(Len(s) - 3) :
                     s[r] = "<" /\ s[r + 1] = "/" /\ s[r + 2] = "script" /\ s[r + 3] = ">"}
    IN  IF starts = {} THEN 0 ELSE CHOOSE r \in starts : \A q \in starts : r <= q

\* Where a match of <script[^>]*>.*?</script> that starts at the head of s
\* ends, or 0.
script_end(s) ==
    IF Len(s) >= 3 /\ s[1] = "<" /\ s[2] = "script" /\ Find(s, ">", 3) > 0
    THEN LET r == FindClose(s, Find(s, ">", 3) + 1)
         IN  IF r > 0 THEN r + 3 ELSE 0
    ELSE 0

\* re.sub(r'<script[^>]*>.*?</script>', '', s, flags=re.DOTALL | re.IGNORECASE)
RECURSIVE sub_script_tags(_)
sub_script_tags(s) ==
    IF s = << >> THEN << >>
    ELSE IF script_end(s) > 0
    THEN sub_script_tags(SubSeq(s, script_end(s) + 1, Len(s)))
    ELSE <<Head(s)>> \o sub_script_tags(Tail(s))

\* s[:n]; the word "script" cut short is so many letters.
RECURSIVE slice(_, _)
slice(s, n) ==
    IF s = << >> \/ n <= 0 THEN << >>
    ELSE IF token_len(Head(s)) <= n
    THEN <<Head(s)>> \o slice(Tail(s), n - token_len(Head(s)))
    ELSE [k \in 1..n |-> "x"]

\* sanitize_response on a str
sanitize_str(p, s) ==
    LET s1 == IF p.remove_html_tags THEN sub_html_tags(s) ELSE s
        s2 == IF p.remove_script_tags THEN sub_script_tags(s1) ELSE s1
    IN  IF p.max_length # 0 /\ len(s2) > p.max_length
        THEN slice(s2, p.max_length)
        ELSE s2

\* A response: a str, a dict, a list, or a value of another type.
Str(s) == [type |-> "str", val |-> s]
Dict(d) == [type |-> "dict", val |-> d]
List(l) == [type |-> "list", val |-> l]
Other(v) == [type |-> "other", val |-> v]

\* The responses handed in: a string alone, and the shape of
\* ImageGenerationResponse.dict() with the string inside.
Responses(n) ==
    {Str(s) : s \in Strings(n)} \cup
    {Dict([k \in {"data", "prompt", "n"} |->
              CASE k = "data" -> List(<<Dict([u \in {"url"} |-> Str(<<"x">>)])>>)
                [] k = "prompt" -> Str(s)
                [] k = "n" -> Other(1)]) : s \in Strings(n)}

\* sanitize_response
RECURSIVE sanitize_response(_, _)
sanitize_response(p, response) ==
    IF ~p.enabled THEN response
    ELSE CASE response.type = "str" -> Str(sanitize_str(p, response.val))
           [] response.type = "dict" ->
                 Dict([key \in DOMAIN response.val |->
                          sanitize_response(p, response.val[key])])
           [] response.type = "list" ->
                 List([k \in 1..Len(response.val) |->
                          sanitize_response(p, response.val[k])])
           [] OTHER -> response

s_pc == sanitizing.s_pc          \* how often sanitize_response has been applied
s_policy == sanitizing.s_policy  \* policy.sanitization
s_in == sanitizing.s_in          \* the response handed in
s_once == sanitizing.s_once      \* sanitize_response(r)
s_twice == sanitizing.s_twice    \* sanitize_response(sanitize_response(r))

\* sanitize_response is applied to the response.
CallSanitizeResponse ==
    /\ s_pc = "given"
    /\ sanitizing' = [sanitizing EXCEPT
          !.s_pc = "once",
          !.s_once = sanitize_response(s_policy, s_in)]
    /\ UNCHANGED notSanitizing

\* sanitize_response is applied to what it returned.
CallSanitizeResponseAgain ==
    /\ s_pc = "once"
    /\ sanitizing' = [sanitizing EXCEPT
          !.s_pc = "twice",
          !.s_twice = sanitize_response(s_policy, s_once)]
    /\ UNCHANGED notSanitizing

InitSanitizing ==
    /\ now = StartTime
    /\ LastIdle
    /\ BreakerIdle
    /\ CacheManager(CachingPolicy(TRUE, TRUE, 2))
    /\ BudgetIdle /\ RetryIdle /\ TimeoutIdle /\ RouterIdle
    /\ FallbackIdle /\ LoaderIdle /\ ImageIdle
    /\ \E p \in SanitizationConfigs, r \in Responses(MaxPieces) :
          sanitizing = [s_pc |-> "given", s_policy |-> p, s_in |-> r,
                        s_once |-> Other(0), s_twice |-> Other(0)]

NextSanitizing ==
    \/ CallSanitizeResponse
    \/ CallSanitizeResponseAgain

SpecSanitizing == InitSanitizing /\ [][NextSanitizing]_vars

\* -------------------------------------------- sanitize_response properties
\* C30: sanitizing what sanitize_response returned gives it back unchanged:
\* sanitize_response(sanitize_response(r)) = sanitize_response(r).
C30_SanitizeIsIdempotent == s_pc = "twice" => s_twice = s_once

\* ----------------------------------------------------------- check_toxicity
\* The texts handed in: any of the toxic keywords, a keyword in capitals, a
\* word that holds a keyword, and a harmless word.
ToxicityWords == toxic_keywords \cup {"HATE", "chateau", "diagram"}
\* policy.toxicity.threshold, in tenths
ThresholdChoices == {0, 5, toxicity_threshold, 10}
ToxicityConfigs ==
    [enabled : BOOLEAN, threshold : ThresholdChoices, block_on_toxicity : BOOLEAN]

sc_pc == screening.sc_pc          \* whether check_toxicity has returned
sc_policy == screening.sc_policy  \* policy.toxicity
sc_text == screening.sc_text      \* text
sc_out == screening.sc_out        \* (is_safe, warning_message, toxicity_score)

\* check_toxicity is applied to the text.
CallCheckToxicity ==
    /\ sc_pc = "given"
    /\ screening' = [screening EXCEPT
          !.sc_pc = "returned",
          !.sc_out = check_toxicity(sc_policy, sc_text)]
    /\ UNCHANGED <<now, cbVars, cacheVars, budgetVars, retrying, timing, router,
                   fallback, loader, image, sanitizing, flights, keying>>

InitScreening ==
    /\ now = StartTime
    /\ BreakerIdle
    /\ CacheManager(CachingPolicy(TRUE, TRUE, 2))
    /\ BudgetIdle /\ RetryIdle /\ TimeoutIdle /\ RouterIdle
    /\ FallbackIdle /\ LoaderIdle /\ ImageIdle /\ SanitizingIdle
    /\ FlightsIdle /\ KeyingIdle
    /\ \E p \in ToxicityConfigs, text \in SUBSET ToxicityWords :
          screening = [sc_pc |-> "given", sc_policy |-> p, sc_text |-> text,
                       sc_out |-> [is_safe |-> TRUE, warning |-> "",
                                   toxicity_score |-> 0]]

NextScreening == CallCheckToxicity

SpecScreening == InitScreening /\ [][NextScreening]_vars

\* ------------------------------------------------ check_toxicity properties
\* The toxic keywords found in the text are as many as the threshold asks for.
AtThreshold ==
    LET matched == {keyword \in toxic_keywords :
                      \/ keyword \in sc_text
                      \/ keyword = "hate" /\ sc_text \cap {"HATE", "chateau"} # {}}
    IN  Cardinality(matched) * 10 >= sc_policy.threshold * Cardinality(toxic_keywords)

\* C33: check_toxicity answers is_safe = false exactly when the stage is
\* enabled, the ratio of matched keywords is at or over the threshold and
\* block_on_toxicity is set; at or over the threshold without
\* block_on_toxicity it answers is_safe = true with a warning; disabled it
\* answers is_safe = true with no warning.
C33_RejectsExactlyWhenBlocking ==
    sc_pc = "returned" =>
        /\ ~sc_out.is_safe <=>
              (sc_policy.enabled /\ AtThreshold /\ sc_policy.block_on_toxicity)
        /\ (sc_policy.enabled /\ AtThreshold /\ ~sc_policy.block_on_toxicity) =>
              (sc_out.is_safe /\ sc_out.warning # "")
        /\ ~sc_policy.enabled => (sc_out.is_safe /\ sc_out.warning = "")

\* Five of the seven keywords, one of them in capitals, were found at the
\* threshold of 0.7 and let through with a warning, block_on_toxicity not set.
C33_Witness ==
    /\ sc_pc = "returned"
    /\ sc_policy = [enabled |-> TRUE, threshold |-> toxicity_threshold,
                    block_on_toxicity |-> FALSE]
    /\ sc_text = {"HATE", "violence", "harassment", "abuse", "offensive"}
    /\ sc_out.is_safe /\ sc_out.warning # ""

\* ------------------------------------------- attempts in flight on a breaker
\* Callers use the breaker as the service asks them to: can_attempt once per
\* attempt and, when it admits the attempt, one record_success or
\* record_failure when the attempt ends. Several attempts are in flight at
\* once; each is known by when it was admitted: "current" in the HalfOpen
\* period the breaker is in, "stale" before it.
MaxInFlight == 4

current == flights.current        \* attempts in flight admitted in this HalfOpen period
stale == flights.stale            \* attempts in flight admitted earlier
own == flights.own                \* history: successes in this HalfOpen period of
                                  \* attempts admitted in it
fl_last == flights.fl_last        \* history: what the last step was, and on which attempt

\* The attempts in flight once the breaker is b2: those of a HalfOpen period
\* that is over are stale.
Settled(fl, b2) ==
    IF b2.state = HALF_OPEN THEN fl
    ELSE [fl EXCEPT !.current = 0, !.stale = fl.stale + fl.current]

\* A caller asks can_attempt and, admitted, starts its attempt.
Attempt ==
    LET r == can_attempt(breaker, now)
        entering == breaker.state = OPEN /\ r.b.state = HALF_OPEN
        asked == [flights EXCEPT !.fl_last = [op |-> "can_attempt", tag |-> "none"]]
    IN
    /\ current + stale < MaxInFlight
    /\ DoCanAttempt
    /\ flights' =
          IF ~r.ret THEN asked
          ELSE IF entering
          THEN [asked EXCEPT !.current = 1, !.own = 0, !.fl_last.tag = "current"]
          ELSE IF r.b.state = HALF_OPEN
          THEN [asked EXCEPT !.current = current + 1, !.fl_last.tag = "current"]
          ELSE [asked EXCEPT !.stale = stale + 1, !.fl_last.tag = "stale"]
    /\ UNCHANGED <<now, cacheVars, budgetVars, retrying, timing, router,
                   fallback, loader, image, sanitizing, screening, keying>>

\* An attempt in flight ends well: its caller calls record_success.
AttemptSucceeds(tag) ==
    LET left == IF tag = "current"
                THEN [flights EXCEPT !.current = current - 1,
                                     !.own = IF breaker.state = HALF_OPEN
                                             THEN own + 1 ELSE own]
                ELSE [flights EXCEPT !.stale = stale - 1]
    IN
    /\ IF tag = "current" THEN current > 0 ELSE stale > 0
    /\ DoRecordSuccess
    /\ flights' = [Settled(left, breaker') EXCEPT
                      !.fl_last = [op |-> "record_success", tag |-> tag]]
    /\ UNCHANGED <<now, cacheVars, budgetVars, retrying, timing, router,
                   fallback, loader, image, sanitizing, screening, keying>>

\* An attempt in flight fails: its caller calls record_failure.
AttemptFails(tag) ==
    LET left == IF tag = "current"
                THEN [flights EXCEPT !.current = current - 1]
                ELSE [flights EXCEPT !.stale = stale - 1]
    IN
    /\ IF tag = "current" THEN current > 0 ELSE stale > 0
    /\ DoRecordFailure
    /\ flights' = [Settled(left, breaker') EXCEPT
                      !.fl_last = [op |-> "record_failure", tag |-> tag]]
    /\ UNCHANGED <<now, cacheVars, budgetVars, retrying, timing, router,
                   fallback, loader, image, sanitizing, screening, keying>>

\* The wall clock advances while attempts are in flight.
TickFlights ==
    /\ now < MaxTime
    /\ now' = now + 1
    /\ flights' = [flights EXCEPT !.fl_last = [op |-> "tick", tag |-> "none"]]
    /\ UNCHANGED <<cbVars, cacheVars, budgetVars, retrying, timing, router,
                   fallback, loader, image, sanitizing, screening, keying>>

\* A breaker as CircuitBreakerManager.get_breaker creates it, nothing in flight.
InitFlights ==
    /\ now = StartTime
    /\ BreakerIdle
    /\ CacheManager(CachingPolicy(TRUE, TRUE, 2))
    /\ BudgetIdle /\ RetryIdle /\ TimeoutIdle /\ RouterIdle
    /\ FallbackIdle /\ LoaderIdle /\ ImageIdle /\ SanitizingIdle
    /\ ScreeningIdle /\ KeyingIdle
    /\ flights = [current |-> 0, stale |-> 0, own |-> 0,
                  fl_last |-> [op |-> "init", tag |-> "none"]]

Ends == \E tag \in {"current", "stale"} : AttemptSucceeds(tag) \/ AttemptFails(tag)

NextFlights ==
    \/ Attempt
    \/ \E tag \in {"current", "stale"} : AttemptSucceeds(tag)
    \/ \E tag \in {"current", "stale"} : AttemptFails(tag)
    \/ TickFlights

SpecFlights == InitFlights /\ [][NextFlights]_vars

\* Callers keep calling can_attempt, and every attempt in flight ends.
SpecFlightsFair == SpecFlights /\ WF_vars(Attempt) /\ WF_vars(Ends)

\* ------------------------------------------------- attempts in flight: properties
\* C35: under callers that keep calling can_attempt and attempts that all end
\* with one record_success or record_failure, a breaker in HalfOpen always
\* leaves it for Closed or Open.
C35_LeavesHalfOpen ==
    (breaker.state = HALF_OPEN) ~> (breaker.state \in {CLOSED, OPEN})

\* The breaker has left HalfOpen for Closed on the success of an attempt
\* admitted in that period, with another attempt still in flight.
C35_Witness ==
    /\ cb_from = HALF_OPEN /\ breaker.state = CLOSED
    /\ fl_last = [op |-> "record_success", tag |-> "current"]
    /\ stale > 0

\* C36: the breaker goes from HalfOpen to Closed only when success_threshold
\* attempts admitted in that HalfOpen period have succeeded, and the end of an
\* attempt admitted earlier leaves a HalfOpen breaker as it is: it adds
\* nothing to success_count and does not reopen the circuit.
C36_OnlyOwnProbesCount ==
    [][ /\ (breaker.state = HALF_OPEN /\ breaker'.state = CLOSED) =>
              own' >= success_threshold
        /\ (/\ breaker.state = HALF_OPEN
            /\ fl_last'.tag = "stale"
            /\ fl_last'.op \in {"record_success", "record_failure"}) =>
              /\ breaker'.state = HALF_OPEN
              /\ breaker'.success_count = breaker.success_count ]_vars

\* ------------------------------------------------- generate_images: cache key
\* A string is the sequence of its pieces: words, and the colon that the key
\* is joined with. An Optional field is given or None.
Some(v) == [some |-> TRUE, val |-> v]
NoneValue == [some |-> FALSE, val |-> << >>]

\* The fields of ImageGenerationRequest as they stand after the PII step.
KeyProviders == {"openai", "cipher"}
KeyPrompts == {<<"cat">>, <<"cat", ":", "technical">>}
KeyStyles == {Some(<<"technical">>), Some(<<"diagram">>), NoneValue}
KeySizes == {NoneValue, Some(<<"1024x1024">>), Some(<<"default">>),
             Some(<<"technical", ":", "1024x1024">>)}
KeyContexts == {NoneValue, Some(<<"architecture">>)}
KeyCounts == {1, 2}
ImageGenerationRequests ==
    [provider : KeyProviders, prompt : KeyPrompts, style : KeyStyles,
     size : KeySizes, context : KeyContexts, n : KeyCounts]

\* {x} in an f-string: str(x), and "None" for None
format(x) == IF x.some THEN x.val ELSE <<"None">>

\* x or 'default': None and the empty string are falsy
or_default(x) == IF x.some /\ x.val # << >> THEN x.val ELSE <<"default">>

\* f"image:{req.provider}:{req.prompt}:{req.style}:{req.size or 'default'}"
image_key(req) ==
    <<"image", ":", req.provider, ":">> \o req.prompt \o <<":">> \o format(req.style)
        \o <<":">> \o or_default(req.size)

k_pc == keying.k_pc            \* how far the two requests have come
k_first == keying.k_first      \* the request served first
k_second == keying.k_second    \* the request served after it
k_store == keying.k_store      \* the cache: the key stored and the request it was generated for
k_key == keying.k_key          \* cache_key of the second request
k_hit == keying.k_hit          \* whether the second request was answered from the cache

\* The first request is served by its provider and its response is stored
\* under its cache key.
FirstRequestCached ==
    /\ k_pc = "given"
    /\ keying' = [keying EXCEPT
          !.k_pc = "cached",
          !.k_store = [key |-> image_key(k_first), generated_for |-> k_first]]
    /\ UNCHANGED <<now, cbVars, cacheVars, budgetVars, retrying, timing, router,
                   fallback, loader, image, sanitizing, screening, flights>>

\* The second request builds its cache key and looks it up.
SecondRequestLooksUp ==
    /\ k_pc = "cached"
    /\ keying' = [keying EXCEPT
          !.k_pc = "answered",
          !.k_key = image_key(k_second),
          !.k_hit = (image_key(k_second) = k_store.key)]
    /\ UNCHANGED <<now, cbVars, cacheVars, budgetVars, retrying, timing, router,
                   fallback, loader, image, sanitizing, screening, flights>>

InitKeying ==
    /\ now = StartTime
    /\ BreakerIdle
    /\ CacheManager(CachingPolicy(TRUE, TRUE, 2))
    /\ BudgetIdle /\ RetryIdle /\ TimeoutIdle /\ RouterIdle
    /\ FallbackIdle /\ LoaderIdle /\ ImageIdle /\ SanitizingIdle
    /\ ScreeningIdle /\ FlightsIdle
    /\ \E first \in ImageGenerationRequests, second \in ImageGenerationRequests :
          keying = [k_pc |-> "given", k_first |-> first, k_second |-> second,
                    k_store |-> [key |-> << >>, generated_for |-> first],
                    k_key |-> << >>, k_hit |-> FALSE]

NextKeying ==
    \/ FirstRequestCached
    \/ SecondRequestLooksUp

SpecKeying == InitKeying /\ [][NextKeying]_vars

\* --------------------------------------- generate_images: cache key properties
\* C40: a request is answered from the cache only with a response generated
\* for a request that agrees with it on provider, prompt, style, size, context
\* and n; and two requests that differ in prompt, style or size have
\* different cache keys.
C40_HitOnlyForEquivalentRequest ==
    k_pc = "answered" =>
        /\ k_hit => k_store.generated_for = k_second
        /\ <<k_first.prompt, k_first.style, k_first.size>>
              # <<k_second.prompt, k_second.style, k_second.size>>
           => k_key # k_store.key

====
